---- MODULE Spec2Model ----
(***************************************************************************)
(* A model of the BITS session-initialisation layer: the configuration     *)
(* store (utils/config_loaders.py), the catalog fallback chain             *)
(* (core/catalog_init.py), the RunEngine assembly (core/run_engine_init.py *)
(* and core/bluesky_init.py) and the YAML-driven device loader             *)
(* (core/instrument_init.py).                                              *)
(***************************************************************************)
EXTENDS Integers, Sequences, FiniteSets, TLC

VARIABLES
    \* ---- utils/config_loaders.py ----
    _iconfig,       \* the module-global configuration dictionary
    cfg_hist,       \* the operations on the store so far, oldest first
    cfg_raised,     \* the exception the latest load_config raised ("none" if none)
    cfg_ret,        \* the object the latest load_config returned ("none" if it raised)
    caller_ref,     \* the object a caller holds and the function that returned it
    caller_copy,    \* the content of the caller's own mapping, were it a copy
    \* ---- catalog_init.init_catalog ----
    cat_iconfig,    \* the iconfig mapping handed to init_catalog
    cat_env,        \* what the backends do when they are contacted
    cat_pc,         \* "idle" | "loop" | "done"
    cat_idx,        \* index of the handler the for-loop is at
    cat_invoked,    \* handlers invoked so far, in order
    cat_errlog,     \* handlers whose failure logger.error reported, in order
    cat_result,     \* the value init_catalog returned (NoneV before that)
    cat_raised,     \* the exception init_catalog raised ("none" if none)
    \* ---- the session: init_RE, then make_devices calls ----
    pc,             \* the statement the session is at
    re_variant,     \* which init_RE runs: "run_engine_init" or "bluesky_init"
    re_in,          \* init_RE's arguments and what its configuration holds
    control_layer,  \* the control layer set_control_layer applied ("unset" before)
    timeouts,       \* "unset", or "set" once set_timeouts ran
    RE,             \* the RunEngine object init_RE builds
    re_log,         \* the warnings init_RE logged
    \* ---- core/instrument_init.py ----
    registry,       \* oregistry: the registered devices, as (name, id) records
    namespace,      \* the device bindings of sys.modules["__main__"]
    device_classes, \* Instrument.device_classes: the creators imported so far
    reg_policy,     \* what the registry does with a name it already holds
    md_args,        \* the arguments of the make_devices call in progress or just over
    configs_path,   \* the directory that call resolved
    md_raised,      \* the exception the call raised to its caller ("none" if none)
    md_log,         \* the log records of the call
    md_built,       \* the devices the call constructed
    md_bound,       \* the names the call bound in __main__
    slept,          \* the seconds the call slept
    \* ---- parse_yaml_file and dynamic_import called on their own ----
    parse_hist,     \* the parse_yaml_file calls on the Instrument, oldest first
    imp_out,        \* the latest direct dynamic_import call and its outcome
    \* ---- run_engine_init.setup_baseline_stream ----
    bl_in,          \* its arguments: BASELINE_LABEL, the registry, what findall does
    sd_baseline,    \* sd.baseline, as the names of the objects it lists
    bl_out,         \* the calls made so far, what the latest raised and logged
    \* ---- api/create_new_startup.py and utils/create_new_instrument.py ----
    sc_in,          \* the command, its name argument, what exists, what fails
    sc_pc,          \* the statement the command is at
    sc_fs,          \* the files and directories that exist
    sc_writes,      \* what the command created or overwrote, in order
    sc_exit,        \* the exit status (-1 while the command runs)
    sc_stderr,      \* the messages printed on stderr, in order
    \* ---- utils/aps_functions.aps_dm_setup ----
    dm_in,          \* the path argument, the script's lines, the environment before
    dm_pc,          \* "idle" | "lines" | "done"
    dm_idx,         \* index of the line the for-loop is at
    environment,    \* the local dict of parsed export lines
    os_environ,     \* os.environ
    dm_out          \* the exception aps_dm_setup raised and what it logged

cat_vars == <<cat_iconfig, cat_env, cat_pc, cat_idx, cat_invoked, cat_errlog,
              cat_result, cat_raised>>

cfg_vars == <<_iconfig, cfg_hist, cfg_raised, cfg_ret, caller_ref, caller_copy>>

re_vars == <<pc, re_variant, re_in, control_layer, timeouts, RE, re_log>>

dev_vars == <<registry, namespace, device_classes, reg_policy, md_args, configs_path,
              md_raised, md_log, md_built, md_bound, slept>>

parse_vars == <<parse_hist, imp_out>>

bl_vars == <<bl_in, sd_baseline, bl_out>>

sc_vars == <<sc_in, sc_pc, sc_fs, sc_writes, sc_exit, sc_stderr>>

dm_vars == <<dm_in, dm_pc, dm_idx, environment, os_environ, dm_out>>

vars == <<cfg_vars, cat_vars, re_vars, dev_vars, parse_vars, bl_vars, sc_vars, dm_vars>>

\* Python's None, as a value comparable with catalog handles.
NoneV == [kind |-> "None", sub |-> "None"]

\* dict.get(key): the value, or None when the key is absent.
Get(d, k) == IF k \in DOMAIN d THEN d[k] ELSE "None"


(***************************************************************************)
(* utils/config_loaders.py                                                 *)
(***************************************************************************)

\* How many operations on the store one behaviour holds.
MaxCfgOps == 3

\* An update in which the keys the mapping already holds keep their values.
MergeKeepingOld(d, other) ==
    [k \in DOMAIN d \cup DOMAIN other |-> IF k \in DOMAIN d THEN d[k] ELSE other[k]]

\* dict.update(other) for two mappings: other's keys win.
Merge(d, other) ==
    [k \in DOMAIN d \cup DOMAIN other |-> IF k \in DOMAIN other THEN other[k] ELSE d[k]]

EmptyDict == [k \in {} |-> <<>>]

\* The mapping a sequence of (key, value) pairs builds, later pairs winning.
RECURSIVE FromPairs(_)
FromPairs(items) ==
    IF items = <<>> THEN EmptyDict
    ELSE LET n == Len(items)
         IN Merge(FromPairs(SubSeq(items, 1, n - 1)),
                  [k \in {items[n][1]} |-> items[n][2]])

\* str.lower() on the characters a suffix is made of.
LowerChar(c) ==
    CASE c = "Y" -> "y" [] c = "M" -> "m" [] c = "L" -> "l" [] c = "T" -> "t"
      [] c = "O" -> "o" [] c = "A" -> "a" [] OTHER -> c

Lower(s) == [i \in 1..Len(s) |-> LowerChar(s[i])]

\* A path: its directories, the stem of its last component and the suffix,
\* character by character.
CfgPath(dirs, stem, suffix) == [dirs |-> dirs, stem |-> stem, suffix |-> suffix]

\* str(path), str(path.parent) and path.parent.name, as sequences of strings.
StrPath(p) == p.dirs \o <<p.stem>> \o p.suffix
StrParent(p) == p.dirs
ParentName(p) == <<p.dirs[Len(p.dirs)]>>

P_Demo == CfgPath(<<"inst", "demo">>, "iconfig", <<".", "y", "m", "l">>)
P_Other == CfgPath(<<"inst", "other">>, "iconfig", <<".", "t", "o", "m", "l">>)
P_Upper == CfgPath(<<"inst", "demo">>, "extra", <<".", "Y", "M", "L">>)
P_Empty == CfgPath(<<"inst", "demo">>, "empty", <<".", "y", "m", "l">>)
P_Broken == CfgPath(<<"inst", "demo">>, "broken", <<".", "y", "m", "l">>)
P_BrokenToml == CfgPath(<<"inst", "demo">>, "broken", <<".", "t", "o", "m", "l">>)
P_Yaml == CfgPath(<<"inst", "demo">>, "iconfig", <<".", "y", "a", "m", "l">>)
P_Missing == CfgPath(<<"inst", "demo">>, "missing", <<".", "y", "m", "l">>)
P_MissingJson == CfgPath(<<"inst", "demo">>, "missing", <<".", "j", "s", "o", "n">>)
P_Pairs == CfgPath(<<"inst", "demo">>, "pairs", <<".", "y", "m", "l">>)
P_Scalar == CfgPath(<<"inst", "demo">>, "scalar", <<".", "y", "m", "l">>)

\* config_path = None
NoPath == CfgPath(<<>>, "None", <<>>)

CfgPaths == {P_Demo, P_Other, P_Upper, P_Empty, P_Broken, P_BrokenToml, P_Yaml,
             P_Missing, P_MissingJson, P_Pairs, P_Scalar}

\* config_path.exists()
Exists(p) == p \in CfgPaths \ {P_Missing, P_MissingJson}

DerivedKeys == {"ICONFIG_PATH", "INSTRUMENT_PATH", "INSTRUMENT_FOLDER"}

\* What the parser makes of each file: "malformed" (the parser raises), or the
\* top-level value: a mapping (items), null (an empty file), a sequence (its
\* leading well-formed pairs are items; an element that is no pair follows
\* them), or a scalar.
Content(p) ==
    CASE p = P_Demo -> [top |-> "mapping",
                        items |-> << <<"DATABROKER_CATALOG", <<"v1">> >>,
                                     <<"RUN_ENGINE", <<"v1">> >> >>]
      [] p = P_Other -> [top |-> "mapping",
                         items |-> << <<"DATABROKER_CATALOG", <<"v2">> >>,
                                      <<"OPHYD", <<"v2">> >> >>]
      [] p = P_Upper -> [top |-> "mapping",
                         items |-> << <<"RUN_ENGINE", <<"v3">> >>,
                                      <<"INSTRUMENT_PATH", <<"v3">> >> >>]
      [] p = P_Yaml -> [top |-> "mapping", items |-> << <<"OPHYD", <<"v4">> >> >>]
      [] p = P_Empty -> [top |-> "null", items |-> <<>>]
      [] p = P_Pairs -> [top |-> "sequence", items |-> << <<"OPHYD", <<"v5">> >> >>]
      [] p = P_Scalar -> [top |-> "scalar", items |-> <<>>]
      [] OTHER -> [top |-> "malformed", items |-> <<>>]

\* The keys a file defines.
FileKeys(p) == {Content(p).items[i][1] : i \in 1..Len(Content(p).items)}

\* The values a file or a caller may write.
CfgValues == {<<"v1">>, <<"v9">>}

\* The with-block of load_config for an existing file: the parser chosen by
\* the lower-cased suffix, None replaced by {}, _iconfig.update(config), then
\* the three derived keys. Gives the store, the exception and the returned
\* object.
LoadExisting(store, p) ==
    LET suf == Lower(p.suffix)
        c == Content(p)
        derived == [k \in DerivedKeys |->
                      CASE k = "ICONFIG_PATH" -> StrPath(p)
                        [] k = "INSTRUMENT_PATH" -> StrParent(p)
                        [] k = "INSTRUMENT_FOLDER" -> ParentName(p)]
    IN IF suf # <<".", "y", "m", "l">> /\ suf # <<".", "t", "o", "m", "l">>
       THEN [store |-> store, raised |-> "ValueError", ret |-> "none"]
       ELSE IF c.top = "malformed"
       THEN [store |-> store,
             raised |-> IF suf = <<".", "y", "m", "l">>
                        THEN "YAMLError" ELSE "TOMLDecodeError",
             ret |-> "none"]
       ELSE IF c.top = "scalar"
       THEN [store |-> store, raised |-> "ValueError", ret |-> "none"]
       ELSE IF c.top = "sequence"
       THEN [store |-> Merge(store, FromPairs(c.items)),
             raised |-> "TypeError", ret |-> "none"]
       ELSE [store |-> Merge(Merge(store, FromPairs(c.items)), derived),
             raised |-> "none", ret |-> "_iconfig"]

\* A load_config whose except-block logs the error and does not re-raise it.
load_config_swallowing(store, p) ==
    IF p = NoPath \/ ~Exists(p)
    THEN [store |-> store, raised |-> "none", ret |-> "none"]
    ELSE [LoadExisting(store, p) EXCEPT !.raised = "none"]

\* load_config(config_path)
load_config_result(store, p) ==
    IF p = NoPath
    THEN [store |-> store, raised |-> "ValueError", ret |-> "none"]
    ELSE IF ~Exists(p)
    THEN [store |-> store, raised |-> "FileNotFoundError", ret |-> "none"]
    ELSE LoadExisting(store, p)

\* A get_config that returns a copy of the store.
get_config_copy == "copy"

\* get_config(): the object it returns.
get_config == "_iconfig"

\* The caller holds nothing yet.
NoRef == [obj |-> "none", from |-> "none"]

CfgEvent(op, p, ok) == [op |-> op, path |-> p, ok |-> ok]

load_config(p) ==
    /\ Len(cfg_hist) < MaxCfgOps
    /\ LET r == load_config_result(_iconfig, p)
       IN /\ _iconfig' = r.store
          /\ cfg_raised' = r.raised
          /\ cfg_ret' = r.ret
          /\ cfg_hist' = Append(cfg_hist, CfgEvent("load", p, r.raised = "none"))
          \* the caller keeps what the call returned
          /\ caller_ref' = IF r.ret = "none" THEN caller_ref
                           ELSE [obj |-> r.ret, from |-> "load_config"]
    /\ UNCHANGED <<caller_copy, cat_vars, re_vars, dev_vars>>
    /\ UNCHANGED <<parse_vars, bl_vars, sc_vars, dm_vars>>

\* update_config(updates)
update_config(k, v) ==
    /\ Len(cfg_hist) < MaxCfgOps
    /\ _iconfig' = Merge(_iconfig, [x \in {k} |-> v])
    /\ cfg_hist' = Append(cfg_hist, CfgEvent("update", NoPath, TRUE))
    /\ UNCHANGED <<cfg_raised, cfg_ret, caller_ref, caller_copy>>
    /\ UNCHANGED <<cat_vars, re_vars, dev_vars>>
    /\ UNCHANGED <<parse_vars, bl_vars, sc_vars, dm_vars>>

\* A caller asks for the configuration and keeps what it is given.
CallerGetConfig ==
    /\ caller_ref' = [obj |-> get_config, from |-> "get_config"]
    /\ caller_copy' = IF get_config = "copy" THEN _iconfig ELSE caller_copy
    /\ UNCHANGED <<_iconfig, cfg_hist, cfg_raised, cfg_ret>>
    /\ UNCHANGED <<cat_vars, re_vars, dev_vars>>
    /\ UNCHANGED <<parse_vars, bl_vars, sc_vars, dm_vars>>

\* The caller assigns an item of the mapping it holds: iconfig[k] = v.
CallerSetItem(k, v) ==
    /\ Len(cfg_hist) < MaxCfgOps
    /\ caller_ref # NoRef
    /\ IF caller_ref.obj = "_iconfig"
       THEN /\ _iconfig' = Merge(_iconfig, [x \in {k} |-> v])
            /\ UNCHANGED caller_copy
       ELSE /\ caller_copy' = Merge(caller_copy, [x \in {k} |-> v])
            /\ UNCHANGED _iconfig
    /\ cfg_hist' = Append(cfg_hist, CfgEvent("setitem", NoPath, TRUE))
    /\ UNCHANGED <<cfg_raised, cfg_ret, caller_ref>>
    /\ UNCHANGED <<cat_vars, re_vars, dev_vars>>
    /\ UNCHANGED <<parse_vars, bl_vars, sc_vars, dm_vars>>

CfgNext ==
    \/ \E p \in CfgPaths \cup {NoPath} : load_config(p)
    \/ \E k \in {"RUN_ENGINE", "BASELINE_LABEL"}, v \in CfgValues : update_config(k, v)
    \/ CallerGetConfig
    \/ \E k \in {"RUN_ENGINE", "ICONFIG_PATH"}, v \in CfgValues : CallerSetItem(k, v)

(***************************************************************************)
(* core/catalog_init.py                                                    *)
(***************************************************************************)

CatKeys == {"TILED_PROFILE_NAME", "TILED_PATH_NAME", "DATABROKER_CATALOG"}

\* Every iconfig over the catalog-selecting keys (a key is present or absent).
CatConfigs == UNION {[S -> {"configured"}] : S \in SUBSET CatKeys}

\* The backends: tiled may be missing (import fails), may not know the profile
\* or the path; databroker may be missing, may not know the catalog name, and
\* databroker.temp() may fail.
CatEnvs ==
    [tiled : {"ok", "missing", "lookup_error"},
     databroker : {"ok", "missing"},
     named : {"ok", "lookup_error"},
     temp : {"ok", "error"}]

Raises(exc) == [out |-> "raise", exc |-> exc, value |-> NoneV]
Returns(v) == [out |-> "return", exc |-> "none", value |-> v]

\* A tiled handler that returns None for a profile it cannot find.
tiled_profile_client_swallowing(iconfig, env) ==
    IF env.tiled = "missing" THEN Raises("ImportError")
    ELSE IF Get(iconfig, "TILED_PROFILE_NAME") = "None" THEN Returns(NoneV)
    ELSE IF env.tiled = "lookup_error" THEN Returns(NoneV)
    ELSE Returns([kind |-> "tiled",
                  sub |-> IF Get(iconfig, "TILED_PATH_NAME") = "None"
                          THEN "client" ELSE "client[path]"])

\* _tiled_profile_client(iconfig): from tiled.client import from_profile,
\* then from_profile(profile) when TILED_PROFILE_NAME is set.
tiled_profile_client(iconfig, env) ==
    IF env.tiled = "missing" THEN Raises("ImportError")
    ELSE IF Get(iconfig, "TILED_PROFILE_NAME") = "None" THEN Returns(NoneV)
    ELSE IF env.tiled = "lookup_error" THEN Raises("ProfileNotFound")
    ELSE Returns([kind |-> "tiled",
                  sub |-> IF Get(iconfig, "TILED_PATH_NAME") = "None"
                          THEN "client" ELSE "client[path]"])

databroker_named_catalog(iconfig, env) ==
    IF env.databroker = "missing" THEN Raises("ImportError")
    ELSE IF Get(iconfig, "DATABROKER_CATALOG") = "None" THEN Returns(NoneV)
    ELSE IF env.named = "lookup_error" THEN Raises("KeyError")
    ELSE Returns([kind |-> "databroker", sub |-> "v2"])

databroker_temporary_catalog(iconfig, env) ==
    IF env.databroker = "missing" THEN Raises("ImportError")
    ELSE IF env.temp = "error" THEN Raises("OSError")
    ELSE Returns([kind |-> "temporary", sub |-> "v2"])

\* The handlers list with the databroker catalog tried before the tiled client.
handlers_named_first == <<"_databroker_named_catalog", "_tiled_profile_client",
                          "_databroker_temporary_catalog">>

\* The handlers list of init_catalog, in the order it tries them.
handlers == <<"_tiled_profile_client", "_databroker_named_catalog",
              "_databroker_temporary_catalog">>

\* handler(iconfig)
CallHandler(h, iconfig, env) ==
    CASE h = "_tiled_profile_client" -> tiled_profile_client(iconfig, env)
      [] h = "_databroker_named_catalog" -> databroker_named_catalog(iconfig, env)
      [] h = "_databroker_temporary_catalog" ->
            databroker_temporary_catalog(iconfig, env)

\* init_catalog is called: the for-loop starts at the first handler.
init_catalog_call ==
    /\ cat_pc = "idle"
    /\ cat_pc' = "loop"
    /\ cat_idx' = 1
    /\ UNCHANGED <<cat_iconfig, cat_env, cat_invoked, cat_errlog, cat_result,
                   cat_raised>>
    /\ UNCHANGED <<cfg_vars, re_vars, dev_vars>>
    /\ UNCHANGED <<parse_vars, bl_vars, sc_vars, dm_vars>>

\* One iteration of a for-loop that lacks "if cat is None: continue": whatever
\* the handler returns is returned.
init_catalog_try_returns_none ==
    /\ cat_pc = "loop"
    /\ cat_idx <= Len(handlers)
    /\ \E r \in {CallHandler(handlers[cat_idx], cat_iconfig, cat_env)} :
          /\ cat_invoked' = Append(cat_invoked, handlers[cat_idx])
          /\ IF r.out = "raise"
             THEN /\ cat_errlog' = Append(cat_errlog, handlers[cat_idx])
                  /\ cat_idx' = cat_idx + 1
                  /\ UNCHANGED <<cat_pc, cat_result>>
             ELSE /\ cat_result' = r.value
                  /\ cat_pc' = "done"
                  /\ UNCHANGED <<cat_idx, cat_errlog>>
    /\ UNCHANGED <<cat_iconfig, cat_env, cat_raised>>
    /\ UNCHANGED <<cfg_vars, re_vars, dev_vars>>
    /\ UNCHANGED <<parse_vars, bl_vars, sc_vars, dm_vars>>

\* One iteration of the for-loop: try: cat = handler(iconfig); None -> continue;
\* otherwise return cat; except Exception: logger.error(...) and go on.
init_catalog_try ==
    /\ cat_pc = "loop"
    /\ cat_idx <= Len(handlers)
    /\ LET h == handlers[cat_idx]
           r == CallHandler(h, cat_iconfig, cat_env)
       IN /\ cat_invoked' = Append(cat_invoked, h)
          /\ IF r.out = "raise"
             THEN /\ cat_errlog' = Append(cat_errlog, h)
                  /\ cat_idx' = cat_idx + 1
                  /\ UNCHANGED <<cat_pc, cat_result>>
             ELSE IF r.value = NoneV
             THEN /\ cat_idx' = cat_idx + 1
                  /\ UNCHANGED <<cat_pc, cat_result, cat_errlog>>
             ELSE /\ cat_result' = r.value
                  /\ cat_pc' = "done"
                  /\ UNCHANGED <<cat_idx, cat_errlog>>
    /\ UNCHANGED <<cat_iconfig, cat_env, cat_raised>>
    /\ UNCHANGED <<cfg_vars, re_vars, dev_vars>>
    /\ UNCHANGED <<parse_vars, bl_vars, sc_vars, dm_vars>>

\* A loop that falls off its end without raising: init_catalog returns None.
init_catalog_exhausted_silent ==
    /\ cat_pc = "loop"
    /\ cat_idx > Len(handlers)
    /\ cat_pc' = "done"
    /\ UNCHANGED <<cat_iconfig, cat_env, cat_idx, cat_invoked, cat_errlog,
                   cat_result, cat_raised>>
    /\ UNCHANGED <<cfg_vars, re_vars, dev_vars>>
    /\ UNCHANGED <<parse_vars, bl_vars, sc_vars, dm_vars>>

\* The loop ran out of handlers: raise RuntimeError.
init_catalog_exhausted ==
    /\ cat_pc = "loop"
    /\ cat_idx > Len(handlers)
    /\ cat_raised' = "RuntimeError"
    /\ cat_pc' = "done"
    /\ UNCHANGED <<cat_iconfig, cat_env, cat_idx, cat_invoked, cat_errlog,
                   cat_result>>
    /\ UNCHANGED <<cfg_vars, re_vars, dev_vars>>
    /\ UNCHANGED <<parse_vars, bl_vars, sc_vars, dm_vars>>

CatNext == init_catalog_call \/ init_catalog_try \/ init_catalog_exhausted

(***************************************************************************)
(* core/run_engine_init.py and core/bluesky_init.py: init_RE               *)
(***************************************************************************)

\* What init_RE is given: the OPHYD.CONTROL_LAYER of the configuration
\* ("absent" when not configured), whether a metadata path is configured and
\* whether StoredDict(MD_PATH) opens, whether a catalog and a
\* BestEffortCallback are passed, and RUN_ENGINE.USE_PROGRESS_BAR.
REInputs ==
    [layer : {"absent", "caproto"},
     md_path : BOOLEAN,
     md_open : {"ok", "error"},
     cat : BOOLEAN,
     bec : BOOLEAN,
     pbar : BOOLEAN]

REVariants == {"run_engine_init", "bluesky_init"}

\* The arguments of the session's own init_RE call: every optional setting at
\* its default, the catalog and the callback passed.
REDefaultInput ==
    [layer |-> "absent", md_path |-> FALSE, md_open |-> "ok", cat |-> TRUE,
     bec |-> TRUE, pbar |-> TRUE]

\* No RunEngine yet.
NoRE ==
    [made |-> FALSE, md_store |-> "none", md |-> EmptyDict, subs |-> <<>>,
     preprocessors |-> <<>>, scan_id |-> FALSE, waiting_hook |-> "none"]

\* re_metadata(iconfig, cat_instance) and RUN_ENGINE.DEFAULT_METADATA
ProgrammaticMD == [k \in {"databroker_catalog", "beamline_id"} |-> <<"programmatic">>]
DefaultMD == [k \in {"beamline_id", "proposal_id"} |-> <<"default">>]

\* An init_RE that goes on to the timeouts without calling set_control_layer.
init_RE_without_control_layer ==
    /\ pc = "init_RE"
    /\ pc' = "re_timeouts"
    /\ UNCHANGED <<re_variant, re_in, control_layer, timeouts, RE, re_log>>
    /\ UNCHANGED <<cfg_vars, cat_vars, dev_vars>>
    /\ UNCHANGED <<parse_vars, bl_vars, sc_vars, dm_vars>>

\* control_layer = iconfig.get("OPHYD", {}).get("CONTROL_LAYER", "PyEpics");
\* set_control_layer(control_layer=control_layer)
init_RE_set_control_layer ==
    /\ pc = "init_RE"
    /\ control_layer' = IF re_in.layer = "absent" THEN "PyEpics" ELSE re_in.layer
    /\ pc' = "re_timeouts"
    /\ UNCHANGED <<re_variant, re_in, timeouts, RE, re_log>>
    /\ UNCHANGED <<cfg_vars, cat_vars, dev_vars>>
    /\ UNCHANGED <<parse_vars, bl_vars, sc_vars, dm_vars>>

\* set_timeouts(timeouts=iconfig.get("OPHYD", {}).get("TIMEOUTS", {}))
init_RE_set_timeouts ==
    /\ pc = "re_timeouts"
    /\ timeouts' = "set"
    /\ pc' = "re_engine"
    /\ UNCHANGED <<re_variant, re_in, control_layer, RE, re_log>>
    /\ UNCHANGED <<cfg_vars, cat_vars, dev_vars>>
    /\ UNCHANGED <<parse_vars, bl_vars, sc_vars, dm_vars>>

\* RE = bluesky.RunEngine(...)
init_RE_engine ==
    /\ pc = "re_engine"
    /\ RE' = [NoRE EXCEPT !.made = TRUE, !.md_store = "memory"]
    /\ pc' = "re_sd"
    /\ UNCHANGED <<re_variant, re_in, control_layer, timeouts, re_log>>
    /\ UNCHANGED <<cfg_vars, cat_vars, dev_vars>>
    /\ UNCHANGED <<parse_vars, bl_vars, sc_vars, dm_vars>>

\* sd = bluesky.SupplementalData(); RE.preprocessors.append(sd)
init_RE_sd ==
    /\ pc = "re_sd"
    /\ RE' = [RE EXCEPT !.preprocessors = Append(@, "sd")]
    /\ pc' = "re_md"
    /\ UNCHANGED <<re_variant, re_in, control_layer, timeouts, re_log>>
    /\ UNCHANGED <<cfg_vars, cat_vars, dev_vars>>
    /\ UNCHANGED <<parse_vars, bl_vars, sc_vars, dm_vars>>

\* An init_RE whose StoredDict failure is logged but ends the setup: the
\* subscriptions are skipped.
init_RE_md_abandoning_setup ==
    /\ pc = "re_md"
    /\ IF re_in.md_path /\ re_in.md_open = "ok"
       THEN /\ RE' = [RE EXCEPT !.md_store = "StoredDict"]
            /\ UNCHANGED re_log
            /\ pc' = "re_subscribe"
       ELSE IF re_in.md_path
       THEN /\ re_log' = re_log \cup {"StoredDict error"}
            /\ UNCHANGED RE
            /\ pc' = "re_finish"
       ELSE /\ UNCHANGED <<RE, re_log>>
            /\ pc' = "re_subscribe"
    /\ UNCHANGED <<re_variant, re_in, control_layer, timeouts>>
    /\ UNCHANGED <<cfg_vars, cat_vars, dev_vars>>
    /\ UNCHANGED <<parse_vars, bl_vars, sc_vars, dm_vars>>

\* MD_PATH = get_md_path(iconfig); if it is not None: try RE.md =
\* StoredDict(MD_PATH), except Exception: print and logger.warning.
init_RE_md ==
    /\ pc = "re_md"
    /\ IF re_in.md_path /\ re_in.md_open = "ok"
       THEN /\ RE' = [RE EXCEPT !.md_store = "StoredDict"]
            /\ UNCHANGED re_log
       ELSE IF re_in.md_path
       THEN /\ re_log' = re_log \cup {"StoredDict error"}
            /\ UNCHANGED RE
       ELSE UNCHANGED <<RE, re_log>>
    /\ pc' = "re_subscribe"
    /\ UNCHANGED <<re_variant, re_in, control_layer, timeouts>>
    /\ UNCHANGED <<cfg_vars, cat_vars, dev_vars>>
    /\ UNCHANGED <<parse_vars, bl_vars, sc_vars, dm_vars>>

\* An init_RE that subscribes the callback before the catalog and applies
\* DEFAULT_METADATA before the catalog's metadata.
init_RE_subscribe_callback_first ==
    /\ pc = "re_subscribe"
    /\ LET md1 == IF re_in.cat THEN Merge(Merge(RE.md, DefaultMD), ProgrammaticMD)
                  ELSE RE.md
           s1 == IF re_in.bec THEN Append(RE.subs, "bec") ELSE RE.subs
           s2 == IF re_in.cat THEN Append(s1, "cat.v1.insert") ELSE s1
           pre == IF re_variant = "bluesky_init"
                  THEN Append(RE.preprocessors, "sd") ELSE RE.preprocessors
       IN RE' = [RE EXCEPT !.md = md1, !.subs = s2, !.preprocessors = pre]
    /\ pc' = "re_finish"
    /\ UNCHANGED <<re_variant, re_in, control_layer, timeouts, re_log>>
    /\ UNCHANGED <<cfg_vars, cat_vars, dev_vars>>
    /\ UNCHANGED <<parse_vars, bl_vars, sc_vars, dm_vars>>

\* if cat_instance is not None: RE.md.update(re_metadata(...));
\* RE.md.update(DEFAULT_METADATA); RE.subscribe(cat_instance.v1.insert).
\* if bec_instance is not None: RE.subscribe(bec_instance).
\* bluesky_init.py then appends sd to RE.preprocessors once more.
init_RE_subscribe ==
    /\ pc = "re_subscribe"
    /\ LET md1 == IF re_in.cat THEN Merge(Merge(RE.md, ProgrammaticMD), DefaultMD)
                  ELSE RE.md
           s1 == IF re_in.cat THEN Append(RE.subs, "cat.v1.insert") ELSE RE.subs
           s2 == IF re_in.bec THEN Append(s1, "bec") ELSE s1
           pre == IF re_variant = "bluesky_init"
                  THEN Append(RE.preprocessors, "sd") ELSE RE.preprocessors
       IN RE' = [RE EXCEPT !.md = md1, !.subs = s2, !.preprocessors = pre]
    /\ pc' = "re_finish"
    /\ UNCHANGED <<re_variant, re_in, control_layer, timeouts, re_log>>
    /\ UNCHANGED <<cfg_vars, cat_vars, dev_vars>>
    /\ UNCHANGED <<parse_vars, bl_vars, sc_vars, dm_vars>>

\* connect_scan_id_pv(RE, pv=scan_id_pv); the progress bar when
\* USE_PROGRESS_BAR; return RE, sd. The session can now load devices.
init_RE_finish ==
    /\ pc = "re_finish"
    /\ RE' = [RE EXCEPT !.scan_id = TRUE,
                        !.waiting_hook = IF re_in.pbar THEN "pbar" ELSE "none"]
    /\ pc' = "ready"
    /\ UNCHANGED <<re_variant, re_in, control_layer, timeouts, re_log>>
    /\ UNCHANGED <<cfg_vars, cat_vars, dev_vars>>
    /\ UNCHANGED <<parse_vars, bl_vars, sc_vars, dm_vars>>

init_RE ==
    \/ init_RE_set_control_layer
    \/ init_RE_set_timeouts
    \/ init_RE_engine
    \/ init_RE_sd
    \/ init_RE_md
    \/ init_RE_subscribe
    \/ init_RE_finish

\* How many setup_baseline_stream calls one behaviour makes.
MaxBaselineCalls == 2

\* iconfig.get("BASELINE_LABEL"): absent, or a mapping whose ENABLE and LABEL
\* keys are absent or set.
BaselineConfigs ==
    {[present |-> FALSE, enable |-> "absent", label |-> "absent"]}
        \cup [present : {TRUE}, enable : {"absent", "false", "true"},
              label : {"absent", "baseline", "monitor"}]

\* The labelled objects a registry may hold, in registration order.
BaselineObjects ==
    <<[name |-> "d1", labels |-> {"baseline"}],
      [name |-> "d2", labels |-> {"monitor"}],
      [name |-> "d3", labels |-> {"baseline", "monitor"}]>>

BaselineRegistries ==
    {SelectSeq(BaselineObjects, LAMBDA e : e.name \in S) : S \in SUBSET {"d1", "d2", "d3"}}

NoBaselineInput ==
    [config |-> [present |-> FALSE, enable |-> "absent", label |-> "absent"],
     registry |-> <<>>, lookup |-> "ok"]

NoBaselineCall == [calls |-> 0, raised |-> "none", log |-> {}]

\* oregistry.findall(label, allow_none=True) or []: the names of the entries
\* that carry the label.
FindAll(reg, label) ==
    LET found == SelectSeq(reg, LAMBDA e : label \in e.labels)
    IN [i \in 1..Len(found) |-> found[i].name]

\* What the try block of setup_baseline_stream does for a label.
ExtendBaseline(in, baseline, label) ==
    IF in.lookup = "raises"
    THEN [baseline |-> baseline, raised |-> "none",
          log |-> {<<"info", "Adding objects with label", label>>,
                   <<"warning", "Could not add objects with label", label>>}]
    ELSE [baseline |-> baseline \o FindAll(in.registry, label), raised |-> "none",
          log |-> {<<"info", "Adding objects with label", label>>}]

\* A setup_baseline_stream whose ENABLE defaults to true.
setup_baseline_stream_enabled_by_default(in, baseline) ==
    IF ~in.config.present
    THEN [baseline |-> baseline, raised |-> "none", log |-> {}]
    ELSE IF in.config.enable = "false"
    THEN [baseline |-> baseline, raised |-> "none", log |-> {}]
    ELSE ExtendBaseline(in, baseline,
                        IF in.config.label = "absent" THEN "baseline"
                        ELSE in.config.label)

\* setup_baseline_stream(sd, iconfig, oregistry): the baseline list it leaves,
\* the exception it raises and what it logs.
setup_baseline_stream_result(in, baseline) ==
    IF ~in.config.present
    THEN [baseline |-> baseline, raised |-> "none", log |-> {}]
    ELSE IF in.config.enable # "true"
    THEN [baseline |-> baseline, raised |-> "none", log |-> {}]
    ELSE ExtendBaseline(in, baseline,
                        IF in.config.label = "absent" THEN "baseline"
                        ELSE in.config.label)

setup_baseline_stream ==
    /\ bl_out.calls < MaxBaselineCalls
    /\ \E r \in {setup_baseline_stream_result(bl_in, sd_baseline)} :
          /\ sd_baseline' = r.baseline
          /\ bl_out' = [calls |-> bl_out.calls + 1, raised |-> r.raised, log |-> r.log]
    /\ UNCHANGED bl_in
    /\ UNCHANGED <<cfg_vars, cat_vars, re_vars, dev_vars, parse_vars>>
    /\ UNCHANGED <<sc_vars, dm_vars>>

(***************************************************************************)
(* api/create_new_startup.py and utils/create_new_instrument.py            *)
(***************************************************************************)

\* The longest name argument.
MaxNameLen == 2

\* The sequences over S of at most n elements.
SeqsUpTo(S, n) == UNION {[1..m -> S] : m \in 0..n}

\* Characters of a name argument: a lower-case letter, the underscore, a
\* digit, and an upper-case letter.
NameChars == {"a", "_", "0", "A"}

Names == SeqsUpTo(NameChars, MaxNameLen)

ScaffoldCommands == {"create_new_startup", "create_new_instrument"}

\* What a command is given: its name argument, whether its destination and
\* the qserver script exist already, the step that fails (if any) and
\* whether a failing copy leaves something behind.
ScaffoldInputs ==
    [cmd : ScaffoldCommands, name : Names, dest_exists : BOOLEAN,
     script_exists : BOOLEAN,
     fail : {"none", "copy", "qserver_config", "qserver_script"},
     partial : BOOLEAN]

NoScaffold ==
    [cmd |-> "none", name |-> <<>>, dest_exists |-> FALSE, script_exists |-> FALSE,
     fail |-> "none", partial |-> FALSE]

\* The files that exist when the command starts.
InitialFs(in) ==
    (IF in.dest_exists THEN {"dest"} ELSE {})
        \cup (IF in.script_exists THEN {"script"} ELSE {})

\* [_a-z0-9]* up to the end of the name, from position i on.
RECURSIVE MatchRest(_, _)
MatchRest(name, i) ==
    IF i > Len(name) THEN TRUE
    ELSE name[i] \in {"a", "_", "0"} /\ MatchRest(name, i + 1)

\* A match of the pattern at the start of the name only.
fullmatch_prefix_only(name) == Len(name) >= 1 /\ name[1] = "a"

\* re.fullmatch(r"[a-z][_a-z0-9]*", name) is not None
fullmatch(name) == Len(name) >= 1 /\ name[1] = "a" /\ MatchRest(name, 2)

\* The command ends with status 1 and a message on stderr.
ScaffoldExit(msg) ==
    /\ sc_stderr' = Append(sc_stderr, msg)
    /\ sc_exit' = 1
    /\ sc_pc' = "done"

\* The name test both commands start with.
validate_name ==
    /\ sc_pc = "start"
    /\ IF fullmatch(sc_in.name)
       THEN /\ sc_pc' = "check"
            /\ UNCHANGED <<sc_exit, sc_stderr>>
       ELSE ScaffoldExit("Invalid name")
    /\ UNCHANGED <<sc_in, sc_fs, sc_writes>>
    /\ UNCHANGED <<cfg_vars, cat_vars, re_vars, dev_vars, parse_vars, bl_vars, dm_vars>>

\* if dest_file.exists() / if new_instrument_dir.exists()
check_destination ==
    /\ sc_pc = "check"
    /\ IF "dest" \in sc_fs
       THEN ScaffoldExit("Destination exists")
       ELSE /\ sc_pc' = "copy"
            /\ UNCHANGED <<sc_exit, sc_stderr>>
    /\ UNCHANGED <<sc_in, sc_fs, sc_writes>>
    /\ UNCHANGED <<cfg_vars, cat_vars, re_vars, dev_vars, parse_vars, bl_vars, dm_vars>>

\* shutil.copy2(source_file, dest_file) / copy_instrument(new_instrument_dir);
\* create_new_startup is over after it.
copy_template ==
    /\ sc_pc = "copy"
    /\ IF sc_in.fail = "copy"
       THEN /\ ScaffoldExit("Error copying")
            /\ sc_fs' = IF sc_in.partial THEN sc_fs \cup {"dest"} ELSE sc_fs
            /\ sc_writes' = IF sc_in.partial THEN Append(sc_writes, "dest")
                            ELSE sc_writes
       ELSE /\ sc_fs' = sc_fs \cup {"dest"}
            /\ sc_writes' = Append(sc_writes, "dest")
            /\ UNCHANGED sc_stderr
            /\ IF sc_in.cmd = "create_new_startup"
               THEN sc_exit' = 0 /\ sc_pc' = "done"
               ELSE sc_pc' = "qserver_config" /\ UNCHANGED sc_exit
    /\ UNCHANGED sc_in
    /\ UNCHANGED <<cfg_vars, cat_vars, re_vars, dev_vars, parse_vars, bl_vars, dm_vars>>

\* create_qserver_config(new_instrument_dir)
create_qserver_config ==
    /\ sc_pc = "qserver_config"
    /\ IF sc_in.fail = "qserver_config"
       THEN /\ ScaffoldExit("Error creating qserver config")
            /\ UNCHANGED <<sc_fs, sc_writes>>
       ELSE /\ sc_fs' = sc_fs \cup {"qserver_yml"}
            /\ sc_writes' = Append(sc_writes, "qserver_yml")
            /\ sc_pc' = "qserver_script"
            /\ UNCHANGED <<sc_exit, sc_stderr>>
    /\ UNCHANGED sc_in
    /\ UNCHANGED <<cfg_vars, cat_vars, re_vars, dev_vars, parse_vars, bl_vars, dm_vars>>

\* create_qserver_startup_script(new_scripts_dir, args.name); the command
\* returns.
create_qserver_startup_script ==
    /\ sc_pc = "qserver_script"
    /\ IF sc_in.fail = "qserver_script"
       THEN /\ ScaffoldExit("Error creating qserver startup script")
            /\ UNCHANGED <<sc_fs, sc_writes>>
       ELSE /\ sc_fs' = sc_fs \cup {"script"}
            /\ sc_writes' = Append(sc_writes, "script")
            /\ sc_exit' = 0
            /\ sc_pc' = "done"
            /\ UNCHANGED sc_stderr
    /\ UNCHANGED sc_in
    /\ UNCHANGED <<cfg_vars, cat_vars, re_vars, dev_vars, parse_vars, bl_vars, dm_vars>>

ScaffoldNext ==
    \/ validate_name
    \/ check_destination
    \/ copy_template
    \/ create_qserver_config
    \/ create_qserver_startup_script

(***************************************************************************)
(* utils/aps_functions.py: aps_dm_setup                                    *)
(***************************************************************************)

\* The longest script, in lines.
MaxScriptLines == 2

\* Lines of a setup script, token by token.
DMLines ==
    {<<"export", " ", "A", "=", "1">>,
     <<"export", " ", "A", "=", "2", " ", "#">>,
     <<" ", "export", " ", " ", "B", "=", "1", " ">>,
     <<"export", " ", "DM_STATION_NAME", "=", "S">>,
     <<"export", " ", "B", "=">>,
     <<"#", " ", "export", " ", "A", "=", "3">>,
     <<"export", " ", "B">>,
     <<"export", "A", "=", "3">>,
     <<"A", "=", "3">>}

\* The tokens \w matches and the tokens \s matches.
WordTokens == {"export", "A", "B", "DM_STATION_NAME", "S", "1", "2", "3"}
SpaceTokens == {" "}

DMScripts == SeqsUpTo(DMLines, MaxScriptLines)

EmptyEnv == [k \in {} |-> <<>>]

\* The process environment before the call.
DMEnvs ==
    {[k \in {<<"HOME">>} |-> <<"h">>],
     [k \in {<<"HOME">>, <<"A">>, <<"DM_STATION_NAME">>} |->
         IF k = <<"HOME">> THEN <<"h">> ELSE <<"0">>]}

DMInputs ==
    [path : {"None", "missing"}, script : {<<>>}, env : DMEnvs]
        \cup [path : {"script"}, script : DMScripts, env : DMEnvs]

NoSetup == [path |-> "None", script |-> <<>>, env |-> EmptyEnv]

NoSetupOutcome == [raised |-> "none", log |-> {}]

\* str.strip()
RECURSIVE LStrip(_)
LStrip(line) ==
    IF line # <<>> /\ line[1] \in SpaceTokens THEN LStrip(Tail(line)) ELSE line

RECURSIVE RStrip(_)
RStrip(line) ==
    IF line # <<>> /\ line[Len(line)] \in SpaceTokens
    THEN RStrip(SubSeq(line, 1, Len(line) - 1))
    ELSE line

strip(line) == RStrip(LStrip(line))

\* The end of the longest run of tokens of S that starts at position i
\* (i - 1 when there is none).
RECURSIVE RunEnd(_, _, _)
RunEnd(line, i, S) ==
    IF i <= Len(line) /\ line[i] \in S THEN RunEnd(line, i + 1, S) ELSE i - 1

NoMatch == [matched |-> FALSE, k |-> <<>>, v |-> <<>>]

\* (\w+)=(.*)$ from position i on.
MatchAssignment(line, i, e) ==
    IF e < i \/ e + 1 > Len(line) \/ line[e + 1] # "=" THEN NoMatch
    ELSE [matched |-> TRUE, k |-> SubSeq(line, i, e),
          v |-> SubSeq(line, e + 2, Len(line))]

\* \s+ from position 2 on, then the assignment.
MatchAfterExport(line, e) ==
    IF e < 2 THEN NoMatch
    ELSE MatchAssignment(line, e + 1, RunEnd(line, e + 1, WordTokens))

\* re.match(r'^export\s+(\w+)=(.*)$', line): the groups k, v of a match.
ExportMatch(line) ==
    IF line = <<>> \/ line[1] # "export" THEN NoMatch
    ELSE MatchAfterExport(line, RunEnd(line, 2, SpaceTokens))

\* dict[k] = v
SetItem(d, k, v) == [x \in DOMAIN d \cup {k} |-> IF x = k THEN v ELSE d[x]]

\* aps_dm_setup(dm_setup_file_path) up to the for-loop: a None path returns,
\* a path that does not exist is logged.
aps_dm_setup ==
    /\ dm_pc = "idle"
    /\ IF dm_in.path = "None"
       THEN /\ dm_pc' = "done"
            /\ UNCHANGED dm_out
       ELSE IF dm_in.path = "missing"
       THEN /\ dm_pc' = "done"
            /\ dm_out' = [dm_out EXCEPT
                            !.log = @ \cup {<<"warning", "APS DM setup file does not exist">>}]
       ELSE /\ dm_pc' = "lines"
            /\ dm_out' = [dm_out EXCEPT
                            !.log = @ \cup {<<"info", "APS DM environment file">>}]
    /\ dm_idx' = 1
    /\ environment' = EmptyEnv
    /\ UNCHANGED <<dm_in, os_environ>>
    /\ UNCHANGED <<cfg_vars, cat_vars, re_vars, dev_vars, parse_vars, bl_vars, sc_vars>>

\* A loop body that keeps the first value parsed for a key.
aps_dm_setup_line_first_wins ==
    /\ dm_pc = "lines"
    /\ dm_idx <= Len(dm_in.script)
    /\ \E m \in {ExportMatch(strip(dm_in.script[dm_idx]))} :
          environment' = IF m.matched /\ m.k \notin DOMAIN environment
                         THEN SetItem(environment, m.k, m.v)
                         ELSE environment
    /\ dm_idx' = dm_idx + 1
    /\ UNCHANGED <<dm_in, dm_pc, os_environ, dm_out>>
    /\ UNCHANGED <<cfg_vars, cat_vars, re_vars, dev_vars, parse_vars, bl_vars, sc_vars>>

\* One line of the for-loop: match line.strip(); environment[k] = v on a match.
aps_dm_setup_line ==
    /\ dm_pc = "lines"
    /\ dm_idx <= Len(dm_in.script)
    /\ \E m \in {ExportMatch(strip(dm_in.script[dm_idx]))} :
          environment' = IF m.matched THEN SetItem(environment, m.k, m.v)
                         ELSE environment
    /\ dm_idx' = dm_idx + 1
    /\ UNCHANGED <<dm_in, dm_pc, os_environ, dm_out>>
    /\ UNCHANGED <<cfg_vars, cat_vars, re_vars, dev_vars, parse_vars, bl_vars, sc_vars>>

\* os.environ.update(environment), then DM_STATION_NAME is looked up and
\* logged.
aps_dm_setup_update ==
    /\ dm_pc = "lines"
    /\ dm_idx > Len(dm_in.script)
    /\ os_environ' = Merge(os_environ, environment)
    /\ dm_out' = [dm_out EXCEPT
                    !.log = @ \cup
                        {IF /\ <<"DM_STATION_NAME">> \in DOMAIN os_environ'
                            /\ os_environ'[<<"DM_STATION_NAME">>] # <<>>
                         THEN <<"info", "APS DM workflow owner">>
                         ELSE <<"warning", "DM_STATION_NAME not set in environment">>}]
    /\ dm_pc' = "done"
    /\ UNCHANGED <<dm_in, dm_idx, environment>>
    /\ UNCHANGED <<cfg_vars, cat_vars, re_vars, dev_vars, parse_vars, bl_vars, sc_vars>>

DMNext == aps_dm_setup \/ aps_dm_setup_line \/ aps_dm_setup_update

(***************************************************************************)
(* core/instrument_init.py                                                 *)
(***************************************************************************)

\* Dotted paths of device creators, token by token.
K_SynGauss == <<"ophyd", ".", "sim", ".", "SynGauss">>
K_EpicsMotor == <<"ophyd", ".", "EpicsMotor">>
K_NoModule == <<"no_such_module", ".", "Klass">>
K_NoAttr == <<"ophyd", ".", "NoSuchClass">>
K_Local == <<"EpicsMotor">>
K_Relative == <<".", "devices", ".", "Motor">>

\* The modules import_module finds, and the attributes getattr finds in them.
Modules == {<<"ophyd">>, <<"ophyd", ".", "sim">>}

ModuleAttrs(m) ==
    CASE m = <<"ophyd">> -> {"EpicsMotor", "sim"}
      [] m = <<"ophyd", ".", "sim">> -> {"SynGauss"}
      [] OTHER -> {}

\* The index of the last "." of a path that has one.
LastDot(s) ==
    CHOOSE i \in 1..Len(s) : s[i] = "." /\ \A j \in (i + 1)..Len(s) : s[j] # "."

\* import_module(module_name), then getattr(module_object, object_name).
ImportObject(module_name, object_name) ==
    IF module_name \notin Modules
    THEN [exc |-> "ImportError", obj |-> <<>>, imported |-> <<module_name>>]
    ELSE IF Len(object_name) # 1 \/ object_name[1] \notin ModuleAttrs(module_name)
    THEN [exc |-> "AttributeError", obj |-> <<>>, imported |-> <<module_name>>]
    ELSE [exc |-> "none", obj |-> module_name \o <<"::">> \o object_name,
          imported |-> <<module_name>>]

\* A dynamic_import without the test for a leading ".".
dynamic_import_relative_allowed(full_path) ==
    IF \A i \in 1..Len(full_path) : full_path[i] # "."
    THEN [exc |-> "ValueError", obj |-> <<>>, imported |-> <<>>]
    ELSE ImportObject(SubSeq(full_path, 1, LastDot(full_path) - 1),
                      SubSeq(full_path, LastDot(full_path) + 1, Len(full_path)))

\* dynamic_import(full_path): the exception it raises ("none" if none), the
\* object it returns and the module names it handed to import_module.
dynamic_import(full_path) ==
    IF \A i \in 1..Len(full_path) : full_path[i] # "."
    THEN [exc |-> "ValueError", obj |-> <<>>, imported |-> <<>>]
    ELSE IF full_path[1] = "."
    THEN [exc |-> "ValueError", obj |-> <<>>, imported |-> <<>>]
    ELSE ImportObject(SubSeq(full_path, 1, LastDot(full_path) - 1),
                      SubSeq(full_path, LastDot(full_path) + 1, Len(full_path)))

\* A keyword-argument table of a device file: the device's name, and whether
\* the creator accepts the table (constructing the device raises if not).
Table(name, ok) == [name |-> name, ok |-> ok]

Entry(creator, specs) == [creator |-> creator, specs |-> specs]

ConfigsDir == <<"inst", "configs">>
CustomDir == <<"custom">>

\* The device files on disk: what yaml.safe_load makes of each.
DeviceFile(path) ==
    CASE path = ConfigsDir \o <<"A.yml">> ->
            [top |-> "mapping",
             entries |-> <<Entry(K_SynGauss, <<Table("m1", TRUE), Table("m2", TRUE)>>)>>]
      [] path = ConfigsDir \o <<"B.yml">> ->
            [top |-> "mapping",
             entries |-> <<Entry(K_SynGauss, <<Table("m2", TRUE)>>),
                           Entry(K_EpicsMotor, <<Table("m3", TRUE)>>)>>]
      [] path = ConfigsDir \o <<"mixed.yml">> ->
            [top |-> "mapping",
             entries |-> <<Entry(K_SynGauss, <<Table("m1", TRUE)>>),
                           Entry(K_NoModule, <<Table("m3", TRUE)>>)>>]
      [] path = CustomDir \o <<"A.yml">> ->
            [top |-> "mapping",
             entries |-> <<Entry(K_EpicsMotor, <<Table("m3", TRUE), Table("m1", FALSE)>>)>>]
      [] path = ConfigsDir \o <<"noattr.yml">> ->
            [top |-> "mapping",
             entries |-> <<Entry(K_EpicsMotor, <<Table("m1", TRUE)>>),
                           Entry(K_NoAttr, <<Table("m2", TRUE)>>)>>]
      [] path = ConfigsDir \o <<"local.yml">> ->
            [top |-> "mapping", entries |-> <<Entry(K_Local, <<Table("m1", TRUE)>>)>>]
      [] path = ConfigsDir \o <<"broken.yml">> -> [top |-> "malformed", entries |-> <<>>]
      [] path = ConfigsDir \o <<"empty.yml">> -> [top |-> "null", entries |-> <<>>]
      [] path = ConfigsDir \o <<"list.yml">> -> [top |-> "sequence", entries |-> <<>>]
      [] OTHER -> [top |-> "absent", entries |-> <<>>]

\* An existence test that every path passes.
DeviceFileAlwaysExists(path) == TRUE

\* device_path.exists()
DeviceFileExists(path) == DeviceFile(path).top # "absent"

FileArgs == {"A.yml", "B.yml", "mixed.yml", "broken.yml", "empty.yml", "list.yml",
             "missing.yml", "None"}
PathArgs == {<<"None">>, CustomDir}
\* pause: float = 1
DefaultPause == 1
PauseArgs == {-1, 0, DefaultPause}

\* What instrument.connect() does: it returns, or raises NotConnected, or
\* raises another exception.
ConnectOutcomes == {"ok", "NotConnected", "TimeoutError"}

LogRec(level, msg, arg) == <<level, msg, arg>>

RegNames(reg) == {d.name : d \in reg}

\* The identity of a newly constructed device of the given name: one that no
\* live object of that name has.
FreshId(name, live) ==
    CHOOSE i \in 1..(Cardinality(live) + 1) :
        /\ \A d \in live : d.name = name => d.id # i
        /\ \A j \in 1..(i - 1) : \E d \in live : d.name = name /\ d.id = j

NewDevice(name, live) == [name |-> name, id |-> FreshId(name, live)]

\* A register that keeps the old device next to the new one.
RegisterKeepingBoth(reg, dev, policy) == reg \cup {dev}

\* Registry.register(device): a name the registry already holds is either
\* given to the new device or kept by the old one.
Register(reg, dev, policy) ==
    IF dev.name \in RegNames(reg)
    THEN IF policy = "replace"
         THEN {d \in reg : d.name # dev.name} \cup {dev}
         ELSE reg
    ELSE reg \cup {dev}

\* The entries yaml_parser returns for a creator.
ParserEntries(creator, specs) ==
    [i \in 1..Len(specs) |->
        [device_class |-> creator, args |-> <<>>, kwargs |-> specs[i]]]

\* What yaml_parser logs before it re-raises an import failure.
ImportFailureLog(creator, exc) ==
    IF exc = "ImportError"
    THEN {LogRec("error", "Failed to import device creator", creator)}
    ELSE IF exc = "AttributeError"
    THEN {LogRec("error", "Device creator not found in module", creator)}
    ELSE {}

\* The dynamic_import calls of one yaml_parser call: one for a creator that
\* is not in the cache.
ImportCalls(creator, classes) == IF creator \in classes THEN <<>> ELSE <<creator>>

\* A yaml_parser that does not keep the class it imported.
ParserResultNotCached(creator, specs, classes, imp) ==
    IF imp.exc # "none"
    THEN [raised |-> imp.exc, devices |-> <<>>, classes |-> classes,
          log |-> ImportFailureLog(creator, imp.exc), calls |-> <<creator>>]
    ELSE [raised |-> "none", devices |-> ParserEntries(creator, specs),
          classes |-> classes, log |-> {}, calls |-> <<creator>>]

\* yaml_parser(creator, specs) once the creator was looked for in the cache
\* and, if it was not there, imported (imp).
ParserResult(creator, specs, classes, imp) ==
    IF creator \notin classes /\ imp.exc # "none"
    THEN [raised |-> imp.exc, devices |-> <<>>, classes |-> classes,
          log |-> ImportFailureLog(creator, imp.exc),
          calls |-> ImportCalls(creator, classes)]
    ELSE [raised |-> "none", devices |-> ParserEntries(creator, specs),
          classes |-> classes \cup {creator}, log |-> {},
          calls |-> ImportCalls(creator, classes)]

\* yaml_parser(creator, specs) of parse_yaml_file, with the cache it reads and
\* writes.
yaml_parser(creator, specs, classes) ==
    ParserResult(creator, specs, classes, dynamic_import(creator))

\* A comprehension that puts the entries of a creator after those of the
\* creators that follow it.
JoinParsedReversed(r, rest) ==
    [raised |-> rest.raised,
     devices |-> IF rest.raised = "none" THEN rest.devices \o r.devices ELSE <<>>,
     classes |-> rest.classes,
     log |-> r.log \cup rest.log,
     calls |-> r.calls \o rest.calls]

\* The entries of one creator followed by those of the creators after it.
JoinParsed(r, rest) ==
    [raised |-> rest.raised,
     devices |-> IF rest.raised = "none" THEN r.devices \o rest.devices ELSE <<>>,
     classes |-> rest.classes,
     log |-> r.log \cup rest.log,
     calls |-> r.calls \o rest.calls]

\* The list comprehension of parse_yaml_file over config_data.items().
RECURSIVE ParseEntries(_, _)
RECURSIVE ParseRest(_, _)
ParseEntries(entries, classes) ==
    IF entries = <<>>
    THEN [raised |-> "none", devices |-> <<>>, classes |-> classes, log |-> {},
          calls |-> <<>>]
    ELSE ParseRest(yaml_parser(entries[1].creator, entries[1].specs, classes),
                   Tail(entries))

\* A comprehension that drops the creator whose import failed and goes on
\* with the creators after it.
ParseRestSkippingFailed(r, entries) ==
    JoinParsed([r EXCEPT !.raised = "none"], ParseEntries(entries, r.classes))

ParseRest(r, entries) ==
    IF r.raised # "none" THEN r ELSE JoinParsed(r, ParseEntries(entries, r.classes))

\* The except clause around the list comprehension: log and re-raise.
ParsedOrLogged(r, path) ==
    IF r.raised = "none" THEN r
    ELSE [r EXCEPT !.log = @ \cup
            {LogRec("error", "Error parsing device specifications", path)}]

ParseFailure(exc, msg, path, classes) ==
    [raised |-> exc, devices |-> <<>>, classes |-> classes,
     log |-> {LogRec("error", msg, path)}, calls |-> <<>>]

\* A parse_yaml_file that reads an empty file as a file without devices
\* (config_data = yaml.safe_load(f) or {}).
ParseLoadedNullAsEmpty(f, path, classes) ==
    IF f.top = "absent"
    THEN ParseFailure("FileNotFoundError", "Device configuration file not found",
                      path, classes)
    ELSE IF f.top = "malformed"
    THEN ParseFailure("YAMLError", "YAML parsing error in device file", path, classes)
    ELSE IF f.top \notin {"mapping", "null"}
    THEN ParseFailure("ValueError", "Invalid device file format", path, classes)
    ELSE ParsedOrLogged(ParseEntries(f.entries, classes), path)

\* parse_yaml_file once yaml.safe_load returned (or raised on) the file f.
ParseLoaded(f, path, classes) ==
    IF f.top = "absent"
    THEN ParseFailure("FileNotFoundError", "Device configuration file not found",
                      path, classes)
    ELSE IF f.top = "malformed"
    THEN ParseFailure("YAMLError", "YAML parsing error in device file", path, classes)
    ELSE IF f.top # "mapping"
    THEN ParseFailure("ValueError", "Invalid device file format", path, classes)
    ELSE ParsedOrLogged(ParseEntries(f.entries, classes), path)

\* Instrument.parse_yaml_file(config_file)
parse_yaml_file(path, classes) == ParseLoaded(DeviceFile(path), path, classes)

\* How many parse_yaml_file calls one behaviour makes on the Instrument.
MaxParses == 3

\* The device files parse_yaml_file is called on.
ParsePaths ==
    {ConfigsDir \o <<f>> : f \in {"A.yml", "B.yml", "mixed.yml", "noattr.yml", "local.yml",
                                  "broken.yml", "empty.yml", "missing.yml"}}
        \cup {CustomDir \o <<"A.yml">>}

\* The paths dynamic_import is called on: "" and "ophyd." besides the creators.
ImportPaths ==
    {K_SynGauss, K_EpicsMotor, K_NoModule, K_NoAttr, K_Local, K_Relative, <<>>,
     <<"ophyd", ".">>, <<".">>}

\* No dynamic_import call yet.
NoImport == [path |-> <<>>, called |-> FALSE, exc |-> "none", obj |-> <<>>,
             imported |-> <<>>]

\* A caller (guarneri's load, or a test) calls instrument.parse_yaml_file(path).
parse_yaml_file_call(path) ==
    /\ Len(parse_hist) < MaxParses
    /\ \E r \in {parse_yaml_file(path, device_classes)} :
          /\ device_classes' = r.classes
          /\ parse_hist' = Append(parse_hist,
                                  [path |-> path, raised |-> r.raised,
                                   devices |-> r.devices, calls |-> r.calls])
    /\ UNCHANGED <<registry, namespace, reg_policy, md_args, configs_path, md_raised,
                   md_log, md_built, md_bound, slept>>
    /\ UNCHANGED <<cfg_vars, cat_vars, re_vars, imp_out, bl_vars>>
    /\ UNCHANGED <<sc_vars, dm_vars>>

\* A caller calls dynamic_import(full_path).
dynamic_import_call(full_path) ==
    /\ \E r \in {dynamic_import(full_path)} :
          imp_out' = [path |-> full_path, called |-> TRUE, exc |-> r.exc, obj |-> r.obj,
                      imported |-> r.imported]
    /\ UNCHANGED <<cfg_vars, cat_vars, re_vars, dev_vars, parse_hist, bl_vars>>
    /\ UNCHANGED <<sc_vars, dm_vars>>

ParseNext ==
    \/ \E path \in ParsePaths : parse_yaml_file_call(path)
    \/ \E full_path \in ImportPaths : dynamic_import_call(full_path)

AddBuilt(dev, rest) == [rest EXCEPT !.built = @ \cup {dev}]

AddFailed(name, rest) ==
    [rest EXCEPT !.log = @ \cup {LogRec("error", "Device construction failed", <<name>>)}]

\* The construction of the parsed entries, in order: each device a creator
\* accepts is built and registered; a device whose construction raises is
\* logged and the next entry is tried. live holds the objects that exist.
RECURSIVE Construct(_, _, _, _)
RECURSIVE ConstructNext(_, _, _, _, _)
Construct(devices, reg, live, policy) ==
    IF devices = <<>> THEN [registry |-> reg, built |-> {}, log |-> {}]
    ELSE IF devices[1].kwargs.ok
    THEN ConstructNext(NewDevice(devices[1].kwargs.name, live), Tail(devices), reg,
                       live, policy)
    ELSE AddFailed(devices[1].kwargs.name, Construct(Tail(devices), reg, live, policy))

ConstructNext(dev, devices, reg, live, policy) ==
    AddBuilt(dev, Construct(devices, Register(reg, dev, policy), live \cup {dev}, policy))

\* The devices of a parsed file, made and registered.
Loaded(parsed, c) ==
    [raised |-> "none", registry |-> c.registry, classes |-> parsed.classes,
     built |-> c.built, log |-> parsed.log \cup c.log]

\* instrument.load once the file is parsed.
LoadParsed(parsed, reg, ns, policy) ==
    IF parsed.raised # "none"
    THEN [raised |-> parsed.raised, registry |-> reg, classes |-> parsed.classes,
          built |-> {}, log |-> parsed.log]
    ELSE Loaded(parsed, Construct(parsed.devices, reg, reg \cup ns, policy))

\* instrument.load(yaml_device_file): parse, then construct.
InstrumentLoad(reg, ns, classes, path, policy) ==
    LoadParsed(parse_yaml_file(path, classes), reg, ns, policy)

\* A for-loop without the current_devices test: every registry name is bound.
NewLabelsAll(reg, current_devices) == RegNames(reg)

\* The labels the for-loop of namespace_loader binds: the registry names that
\* were not registered before the load.
NewLabels(reg, current_devices) ==
    {label \in RegNames(reg) : label \notin current_devices}

\* A for-loop that logs each label and sets no attribute.
BindLoggingOnly(reg, ns, labels) ==
    [namespace |-> ns,
     bound |-> labels,
     log |-> {LogRec("info", "Adding ophyd device to main namespace", <<label>>) :
                 label \in labels}]

\* setattr(main_namespace, label, oregistry[label]) for each of the labels.
Bind(reg, ns, labels) ==
    [namespace |-> {b \in ns : b.name \notin labels} \cup {d \in reg : d.name \in labels},
     bound |-> labels,
     log |-> {LogRec("info", "Adding ophyd device to main namespace", <<label>>) :
                 label \in labels}]

\* The for-loop of namespace_loader.
BindNew(reg, ns, current_devices) == Bind(reg, ns, NewLabels(reg, current_devices))

\* namespace_loader stopped by an exception: nothing is bound.
LoaderRaised(exc, ld, ns) ==
    [raised |-> exc, registry |-> ld.registry, namespace |-> ns,
     classes |-> ld.classes, built |-> ld.built, bound |-> {}, log |-> ld.log]

\* namespace_loader ran to its end.
LoaderDone(ld, b, path, connect) ==
    [raised |-> "none", registry |-> ld.registry, namespace |-> b.namespace,
     classes |-> ld.classes, built |-> ld.built, bound |-> b.bound,
     log |-> ld.log \cup b.log \cup {LogRec("info", "Devices loaded", path)}
             \cup (IF connect = "NotConnected"
                   THEN {LogRec("error", "NotConnected", path)} ELSE {})]

\* A namespace_loader that logs NotConnected and raises it again.
AfterLoadNotConnectedRaised(ld, ns, current_devices, path, connect) ==
    IF ld.raised # "none" THEN LoaderRaised(ld.raised, ld, ns)
    ELSE IF connect = "NotConnected"
    THEN [LoaderRaised(connect, ld, ns) EXCEPT
            !.log = @ \cup {LogRec("error", "NotConnected", path)}]
    ELSE IF connect # "ok" THEN LoaderRaised(connect, ld, ns)
    ELSE LoaderDone(ld, BindNew(ld.registry, ns, current_devices), path, connect)

\* namespace_loader after instrument.load: await instrument.connect(), with
\* NotConnected caught and logged, then the binding of the new devices.
AfterLoad(ld, ns, current_devices, path, connect) ==
    IF ld.raised # "none" THEN LoaderRaised(ld.raised, ld, ns)
    ELSE IF connect \notin {"ok", "NotConnected"} THEN LoaderRaised(connect, ld, ns)
    ELSE LoaderDone(ld, BindNew(ld.registry, ns, current_devices), path, connect)

\* namespace_loader(yaml_device_file, main=True)
namespace_loader(reg, ns, classes, path, policy, connect) ==
    AfterLoad(InstrumentLoad(reg, ns, classes, path, policy), ns, RegNames(reg), path,
              connect)

\* A clear block that empties the registry and leaves __main__ alone.
ClearRegistryOnly(reg, ns) == [registry |-> {}, namespace |-> ns, log |-> {}]

\* The clear block of make_devices: every registered name that __main__ binds
\* is deleted from __main__, then oregistry.clear().
ClearDevices(reg, ns) ==
    [registry |-> {},
     namespace |-> {b \in ns : b.name \notin RegNames(reg)},
     log |-> {LogRec("info", "Removing from __main__", <<n>>) :
                 n \in RegNames(reg) \cap RegNames(ns)}]

\* No call in progress.
NoCall == [file |-> "None", path |-> <<"None">>, clear |-> FALSE, pause |-> 0]

\* A make_devices that takes the configured directory whenever one is
\* configured, whatever path it is given.
make_devices_call_default_path(file, path, clear, pause) ==
    /\ pc = "ready"
    /\ md_args' = [file |-> file, path |-> path, clear |-> clear, pause |-> pause]
    /\ IF file = "None"
       THEN /\ md_log' = {LogRec("error", "No custom device file provided", <<>>)}
            /\ pc' = "md_done"
            /\ UNCHANGED <<md_raised, configs_path>>
       ELSE IF path = <<"None">> /\ Get(_iconfig, "INSTRUMENT_PATH") = "None"
       THEN /\ md_raised' = "TypeError"
            /\ pc' = "md_done"
            /\ UNCHANGED <<md_log, configs_path>>
       ELSE /\ configs_path' =
                  IF Get(_iconfig, "INSTRUMENT_PATH") # "None"
                  THEN LET ip == _iconfig["INSTRUMENT_PATH"]
                       IN SubSeq(ip, 1, Len(ip) - 1) \o <<"configs">>
                  ELSE path
            /\ md_log' = {LogRec("info", "configs path", configs_path')}
            /\ pc' = "md_clear"
            /\ UNCHANGED md_raised
    /\ UNCHANGED <<registry, namespace, device_classes, reg_policy, md_built, md_bound,
                   slept>>
    /\ UNCHANGED <<re_variant, re_in, control_layer, timeouts, RE, re_log>>
    /\ UNCHANGED <<cfg_vars, cat_vars>>
    /\ UNCHANGED <<parse_vars, bl_vars, sc_vars, dm_vars>>

\* A make_devices without the test for file None.
make_devices_call_without_file_test(file, path, clear, pause) ==
    /\ pc = "ready"
    /\ md_args' = [file |-> file, path |-> path, clear |-> clear, pause |-> pause]
    /\ IF path = <<"None">> /\ Get(_iconfig, "INSTRUMENT_PATH") = "None"
       THEN /\ md_raised' = "TypeError"
            /\ pc' = "md_done"
            /\ UNCHANGED <<md_log, configs_path>>
       ELSE /\ configs_path' =
                  IF path = <<"None">>
                  THEN LET ip == _iconfig["INSTRUMENT_PATH"]
                       IN SubSeq(ip, 1, Len(ip) - 1) \o <<"configs">>
                  ELSE path
            /\ md_log' = {LogRec("info", "configs path", configs_path')}
            /\ pc' = "md_clear"
            /\ UNCHANGED md_raised
    /\ UNCHANGED <<registry, namespace, device_classes, reg_policy, md_built, md_bound,
                   slept>>
    /\ UNCHANGED <<re_variant, re_in, control_layer, timeouts, RE, re_log>>
    /\ UNCHANGED <<cfg_vars, cat_vars>>
    /\ UNCHANGED <<parse_vars, bl_vars, sc_vars, dm_vars>>

\* make_devices(pause, clear, file, path) up to the clear block: file None
\* returns at once; path None takes <parent of INSTRUMENT_PATH>/configs from
\* get_config(), and pathlib.Path(None) raises TypeError.
make_devices_call(file, path, clear, pause) ==
    /\ pc = "ready"
    /\ md_args' = [file |-> file, path |-> path, clear |-> clear, pause |-> pause]
    /\ IF file = "None"
       THEN /\ md_log' = {LogRec("error", "No custom device file provided", <<>>)}
            /\ pc' = "md_done"
            /\ UNCHANGED <<md_raised, configs_path>>
       ELSE IF path = <<"None">> /\ Get(_iconfig, "INSTRUMENT_PATH") = "None"
       THEN /\ md_raised' = "TypeError"
            /\ pc' = "md_done"
            /\ UNCHANGED <<md_log, configs_path>>
       ELSE /\ configs_path' =
                  IF path = <<"None">>
                  THEN LET ip == _iconfig["INSTRUMENT_PATH"]
                       IN SubSeq(ip, 1, Len(ip) - 1) \o <<"configs">>
                  ELSE path
            /\ md_log' = {LogRec("info", "configs path", configs_path')}
            /\ pc' = "md_clear"
            /\ UNCHANGED md_raised
    /\ UNCHANGED <<registry, namespace, device_classes, reg_policy, md_built, md_bound,
                   slept>>
    /\ UNCHANGED <<re_variant, re_in, control_layer, timeouts, RE, re_log>>
    /\ UNCHANGED <<cfg_vars, cat_vars>>
    /\ UNCHANGED <<parse_vars, bl_vars, sc_vars, dm_vars>>

\* A make_devices that clears only when the device file exists.
make_devices_clear_if_file_exists ==
    /\ pc = "md_clear"
    /\ IF md_args.clear /\ DeviceFileExists(configs_path \o <<md_args.file>>)
       THEN \E c \in {ClearDevices(registry, namespace)} :
               /\ registry' = c.registry
               /\ namespace' = c.namespace
               /\ md_log' = md_log \cup c.log
       ELSE UNCHANGED <<registry, namespace, md_log>>
    /\ pc' = "md_load"
    /\ UNCHANGED <<device_classes, reg_policy, md_args, configs_path, md_raised,
                   md_built, md_bound, slept>>
    /\ UNCHANGED <<re_variant, re_in, control_layer, timeouts, RE, re_log>>
    /\ UNCHANGED <<cfg_vars, cat_vars>>
    /\ UNCHANGED <<parse_vars, bl_vars, sc_vars, dm_vars>>

\* if clear: ... oregistry.clear()
make_devices_clear ==
    /\ pc = "md_clear"
    /\ IF md_args.clear
       THEN \E c \in {ClearDevices(registry, namespace)} :
               /\ registry' = c.registry
               /\ namespace' = c.namespace
               /\ md_log' = md_log \cup c.log
       ELSE UNCHANGED <<registry, namespace, md_log>>
    /\ pc' = "md_load"
    /\ UNCHANGED <<device_classes, reg_policy, md_args, configs_path, md_raised,
                   md_built, md_bound, slept>>
    /\ UNCHANGED <<re_variant, re_in, control_layer, timeouts, RE, re_log>>
    /\ UNCHANGED <<cfg_vars, cat_vars>>
    /\ UNCHANGED <<parse_vars, bl_vars, sc_vars, dm_vars>>

\* device_path = configs_path / file; a missing file is logged; otherwise
\* asyncio.run(namespace_loader(...)), any Exception of which is logged.
make_devices_load(connect) ==
    /\ pc = "md_load"
    /\ \E device_path \in {configs_path \o <<md_args.file>>} :
         IF ~DeviceFileExists(device_path)
         THEN /\ md_log' = md_log \cup
                     {LogRec("error", "Device file not found", device_path)}
              /\ UNCHANGED <<registry, namespace, device_classes, md_built, md_bound>>
         ELSE \E r \in {namespace_loader(registry, namespace, device_classes,
                                         device_path, reg_policy, connect)} :
                 /\ registry' = r.registry
                 /\ namespace' = r.namespace
                 /\ device_classes' = r.classes
                 /\ md_built' = r.built
                 /\ md_bound' = r.bound
                 /\ md_log' = md_log \cup r.log
                       \cup {LogRec("info", "Loading device file", device_path)}
                       \cup (IF r.raised # "none"
                             THEN {LogRec("error", "Error loading device file",
                                          device_path)}
                             ELSE {})
    /\ pc' = "md_pause"
    /\ UNCHANGED <<reg_policy, md_args, configs_path, md_raised, slept>>
    /\ UNCHANGED <<re_variant, re_in, control_layer, timeouts, RE, re_log>>
    /\ UNCHANGED <<cfg_vars, cat_vars>>
    /\ UNCHANGED <<parse_vars, bl_vars, sc_vars, dm_vars>>

\* A make_devices that sleeps only after a load that logged no error.
make_devices_pause_after_success ==
    /\ pc = "md_pause"
    /\ slept' = IF md_args.pause > 0 /\ \A rec \in md_log : rec[1] # "error"
                THEN slept + md_args.pause ELSE slept
    /\ pc' = "md_done"
    /\ UNCHANGED <<registry, namespace, device_classes, reg_policy, md_args,
                   configs_path, md_raised, md_log, md_built, md_bound>>
    /\ UNCHANGED <<re_variant, re_in, control_layer, timeouts, RE, re_log>>
    /\ UNCHANGED <<cfg_vars, cat_vars>>
    /\ UNCHANGED <<parse_vars, bl_vars, sc_vars, dm_vars>>

\* if pause > 0: time.sleep(pause); the call returns.
make_devices_pause ==
    /\ pc = "md_pause"
    /\ slept' = IF md_args.pause > 0 THEN slept + md_args.pause ELSE slept
    /\ pc' = "md_done"
    /\ UNCHANGED <<registry, namespace, device_classes, reg_policy, md_args,
                   configs_path, md_raised, md_log, md_built, md_bound>>
    /\ UNCHANGED <<re_variant, re_in, control_layer, timeouts, RE, re_log>>
    /\ UNCHANGED <<cfg_vars, cat_vars>>
    /\ UNCHANGED <<parse_vars, bl_vars, sc_vars, dm_vars>>

\* The call is over and the session goes on: what is left of the call is
\* what it did to the registry, the namespace and the import cache.
make_devices_over ==
    /\ pc = "md_done"
    /\ pc' = "ready"
    /\ md_args' = NoCall
    /\ configs_path' = <<>>
    /\ md_raised' = "none"
    /\ md_log' = {}
    /\ md_built' = {}
    /\ md_bound' = {}
    /\ slept' = 0
    /\ UNCHANGED <<registry, namespace, device_classes, reg_policy>>
    /\ UNCHANGED <<re_variant, re_in, control_layer, timeouts, RE, re_log>>
    /\ UNCHANGED <<cfg_vars, cat_vars>>
    /\ UNCHANGED <<parse_vars, bl_vars, sc_vars, dm_vars>>

make_devices ==
    \/ \E file \in FileArgs, path \in PathArgs, clear \in BOOLEAN, pause \in PauseArgs :
            make_devices_call(file, path, clear, pause)
    \/ make_devices_clear
    \/ \E connect \in ConnectOutcomes : make_devices_load(connect)
    \/ make_devices_pause
    \/ make_devices_over

\* The session: init_RE when it starts, make_devices calls from then on.
Next == init_RE \/ make_devices

(***************************************************************************)
(* Specifications                                                          *)
(***************************************************************************)

\* The configuration store before any load; nothing else runs.
InitConfig ==
    /\ _iconfig = EmptyDict
    /\ cfg_hist = <<>>
    /\ cfg_raised = "none"
    /\ cfg_ret = "none"
    /\ caller_ref = NoRef
    /\ caller_copy = EmptyDict
    /\ cat_iconfig = EmptyDict
    /\ cat_env = [tiled |-> "ok", databroker |-> "ok", named |-> "ok", temp |-> "ok"]
    /\ cat_pc = "idle"
    /\ cat_idx = 0
    /\ cat_invoked = <<>>
    /\ cat_errlog = <<>>
    /\ cat_result = NoneV
    /\ cat_raised = "none"
    /\ pc = "none"
    /\ re_variant = "run_engine_init"
    /\ re_in = REDefaultInput
    /\ control_layer = "unset"
    /\ timeouts = "unset"
    /\ RE = NoRE
    /\ re_log = {}
    /\ registry = {}
    /\ namespace = {}
    /\ device_classes = {}
    /\ reg_policy = "replace"
    /\ md_args = NoCall
    /\ configs_path = <<>>
    /\ md_raised = "none"
    /\ md_log = {}
    /\ md_built = {}
    /\ md_bound = {}
    /\ slept = 0
    /\ parse_hist = <<>>
    /\ imp_out = NoImport
    /\ bl_in = NoBaselineInput
    /\ sd_baseline = <<>>
    /\ bl_out = NoBaselineCall
    /\ sc_in = NoScaffold
    /\ sc_pc = "idle"
    /\ sc_fs = {}
    /\ sc_writes = <<>>
    /\ sc_exit = -1
    /\ sc_stderr = <<>>
    /\ dm_in = NoSetup
    /\ dm_pc = "done"
    /\ dm_idx = 0
    /\ environment = EmptyEnv
    /\ os_environ = EmptyEnv
    /\ dm_out = NoSetupOutcome

\* init_catalog is about to be called, with any iconfig and any backends.
InitCatalog ==
    /\ _iconfig = EmptyDict
    /\ cfg_hist = <<>>
    /\ cfg_raised = "none"
    /\ cfg_ret = "none"
    /\ caller_ref = NoRef
    /\ caller_copy = EmptyDict
    /\ cat_iconfig \in CatConfigs
    /\ cat_env \in CatEnvs
    /\ cat_pc = "idle"
    /\ cat_idx = 0
    /\ cat_invoked = <<>>
    /\ cat_errlog = <<>>
    /\ cat_result = NoneV
    /\ cat_raised = "none"
    /\ pc = "none"
    /\ re_variant = "run_engine_init"
    /\ re_in = REDefaultInput
    /\ control_layer = "unset"
    /\ timeouts = "unset"
    /\ RE = NoRE
    /\ re_log = {}
    /\ registry = {}
    /\ namespace = {}
    /\ device_classes = {}
    /\ reg_policy = "replace"
    /\ md_args = NoCall
    /\ configs_path = <<>>
    /\ md_raised = "none"
    /\ md_log = {}
    /\ md_built = {}
    /\ md_bound = {}
    /\ slept = 0
    /\ parse_hist = <<>>
    /\ imp_out = NoImport
    /\ bl_in = NoBaselineInput
    /\ sd_baseline = <<>>
    /\ bl_out = NoBaselineCall
    /\ sc_in = NoScaffold
    /\ sc_pc = "idle"
    /\ sc_fs = {}
    /\ sc_writes = <<>>
    /\ sc_exit = -1
    /\ sc_stderr = <<>>
    /\ dm_in = NoSetup
    /\ dm_pc = "done"
    /\ dm_idx = 0
    /\ environment = EmptyEnv
    /\ os_environ = EmptyEnv
    /\ dm_out = NoSetupOutcome

\* init_RE is about to be called, in either variant and with any arguments.
InitRE ==
    /\ _iconfig = EmptyDict
    /\ cfg_hist = <<>>
    /\ cfg_raised = "none"
    /\ cfg_ret = "none"
    /\ caller_ref = NoRef
    /\ caller_copy = EmptyDict
    /\ cat_iconfig = EmptyDict
    /\ cat_env = [tiled |-> "ok", databroker |-> "ok", named |-> "ok", temp |-> "ok"]
    /\ cat_pc = "idle"
    /\ cat_idx = 0
    /\ cat_invoked = <<>>
    /\ cat_errlog = <<>>
    /\ cat_result = NoneV
    /\ cat_raised = "none"
    /\ pc = "init_RE"
    /\ re_variant \in REVariants
    /\ re_in \in REInputs
    /\ control_layer = "unset"
    /\ timeouts = "unset"
    /\ RE = NoRE
    /\ re_log = {}
    /\ registry = {}
    /\ namespace = {}
    /\ device_classes = {}
    /\ reg_policy = "replace"
    /\ md_args = NoCall
    /\ configs_path = <<>>
    /\ md_raised = "none"
    /\ md_log = {}
    /\ md_built = {}
    /\ md_bound = {}
    /\ slept = 0
    /\ parse_hist = <<>>
    /\ imp_out = NoImport
    /\ bl_in = NoBaselineInput
    /\ sd_baseline = <<>>
    /\ bl_out = NoBaselineCall
    /\ sc_in = NoScaffold
    /\ sc_pc = "idle"
    /\ sc_fs = {}
    /\ sc_writes = <<>>
    /\ sc_exit = -1
    /\ sc_stderr = <<>>
    /\ dm_in = NoSetup
    /\ dm_pc = "done"
    /\ dm_idx = 0
    /\ environment = EmptyEnv
    /\ os_environ = EmptyEnv
    /\ dm_out = NoSetupOutcome

\* A session starts: load_config(P_Demo) was called or no configuration was
\* loaded, init_RE is about to be called, no device exists.
Init ==
    /\ _iconfig \in {EmptyDict, load_config_result(EmptyDict, P_Demo).store}
    /\ cfg_hist = <<>>
    /\ cfg_raised = "none"
    /\ cfg_ret = "none"
    /\ caller_ref = NoRef
    /\ caller_copy = EmptyDict
    /\ cat_iconfig = EmptyDict
    /\ cat_env = [tiled |-> "ok", databroker |-> "ok", named |-> "ok", temp |-> "ok"]
    /\ cat_pc = "idle"
    /\ cat_idx = 0
    /\ cat_invoked = <<>>
    /\ cat_errlog = <<>>
    /\ cat_result = NoneV
    /\ cat_raised = "none"
    /\ pc = "init_RE"
    /\ re_variant \in REVariants
    /\ re_in = REDefaultInput
    /\ control_layer = "unset"
    /\ timeouts = "unset"
    /\ RE = NoRE
    /\ re_log = {}
    /\ registry = {}
    /\ namespace = {}
    /\ device_classes = {}
    /\ reg_policy \in {"replace", "ignore"}
    /\ md_args = NoCall
    /\ configs_path = <<>>
    /\ md_raised = "none"
    /\ md_log = {}
    /\ md_built = {}
    /\ md_bound = {}
    /\ slept = 0
    /\ parse_hist = <<>>
    /\ imp_out = NoImport
    /\ bl_in = NoBaselineInput
    /\ sd_baseline = <<>>
    /\ bl_out = NoBaselineCall
    /\ sc_in = NoScaffold
    /\ sc_pc = "idle"
    /\ sc_fs = {}
    /\ sc_writes = <<>>
    /\ sc_exit = -1
    /\ sc_stderr = <<>>
    /\ dm_in = NoSetup
    /\ dm_pc = "done"
    /\ dm_idx = 0
    /\ environment = EmptyEnv
    /\ os_environ = EmptyEnv
    /\ dm_out = NoSetupOutcome

\* An Instrument whose cache is empty; nothing else runs.
InitParse ==
    /\ _iconfig = EmptyDict
    /\ cfg_hist = <<>>
    /\ cfg_raised = "none"
    /\ cfg_ret = "none"
    /\ caller_ref = NoRef
    /\ caller_copy = EmptyDict
    /\ cat_iconfig = EmptyDict
    /\ cat_env = [tiled |-> "ok", databroker |-> "ok", named |-> "ok", temp |-> "ok"]
    /\ cat_pc = "idle"
    /\ cat_idx = 0
    /\ cat_invoked = <<>>
    /\ cat_errlog = <<>>
    /\ cat_result = NoneV
    /\ cat_raised = "none"
    /\ pc = "none"
    /\ re_variant = "run_engine_init"
    /\ re_in = REDefaultInput
    /\ control_layer = "unset"
    /\ timeouts = "unset"
    /\ RE = NoRE
    /\ re_log = {}
    /\ registry = {}
    /\ namespace = {}
    /\ device_classes = {}
    /\ reg_policy = "replace"
    /\ md_args = NoCall
    /\ configs_path = <<>>
    /\ md_raised = "none"
    /\ md_log = {}
    /\ md_built = {}
    /\ md_bound = {}
    /\ slept = 0
    /\ parse_hist = <<>>
    /\ imp_out = NoImport
    /\ bl_in = NoBaselineInput
    /\ sd_baseline = <<>>
    /\ bl_out = NoBaselineCall
    /\ sc_in = NoScaffold
    /\ sc_pc = "idle"
    /\ sc_fs = {}
    /\ sc_writes = <<>>
    /\ sc_exit = -1
    /\ sc_stderr = <<>>
    /\ dm_in = NoSetup
    /\ dm_pc = "done"
    /\ dm_idx = 0
    /\ environment = EmptyEnv
    /\ os_environ = EmptyEnv
    /\ dm_out = NoSetupOutcome

\* setup_baseline_stream is about to be called with any of its arguments, on
\* a baseline list that is empty or holds an object already.
InitBaseline ==
    /\ _iconfig = EmptyDict
    /\ cfg_hist = <<>>
    /\ cfg_raised = "none"
    /\ cfg_ret = "none"
    /\ caller_ref = NoRef
    /\ caller_copy = EmptyDict
    /\ cat_iconfig = EmptyDict
    /\ cat_env = [tiled |-> "ok", databroker |-> "ok", named |-> "ok", temp |-> "ok"]
    /\ cat_pc = "idle"
    /\ cat_idx = 0
    /\ cat_invoked = <<>>
    /\ cat_errlog = <<>>
    /\ cat_result = NoneV
    /\ cat_raised = "none"
    /\ pc = "none"
    /\ re_variant = "run_engine_init"
    /\ re_in = REDefaultInput
    /\ control_layer = "unset"
    /\ timeouts = "unset"
    /\ RE = NoRE
    /\ re_log = {}
    /\ registry = {}
    /\ namespace = {}
    /\ device_classes = {}
    /\ reg_policy = "replace"
    /\ md_args = NoCall
    /\ configs_path = <<>>
    /\ md_raised = "none"
    /\ md_log = {}
    /\ md_built = {}
    /\ md_bound = {}
    /\ slept = 0
    /\ parse_hist = <<>>
    /\ imp_out = NoImport
    /\ bl_in \in [config : BaselineConfigs, registry : BaselineRegistries,
                 lookup : {"ok", "raises"}]
    /\ sd_baseline \in {<<>>, <<"d0">>}
    /\ bl_out = NoBaselineCall
    /\ sc_in = NoScaffold
    /\ sc_pc = "idle"
    /\ sc_fs = {}
    /\ sc_writes = <<>>
    /\ sc_exit = -1
    /\ sc_stderr = <<>>
    /\ dm_in = NoSetup
    /\ dm_pc = "done"
    /\ dm_idx = 0
    /\ environment = EmptyEnv
    /\ os_environ = EmptyEnv
    /\ dm_out = NoSetupOutcome

InitScaffold ==
    /\ _iconfig = EmptyDict
    /\ cfg_hist = <<>>
    /\ cfg_raised = "none"
    /\ cfg_ret = "none"
    /\ caller_ref = NoRef
    /\ caller_copy = EmptyDict
    /\ cat_iconfig = EmptyDict
    /\ cat_env = [tiled |-> "ok", databroker |-> "ok", named |-> "ok", temp |-> "ok"]
    /\ cat_pc = "idle"
    /\ cat_idx = 0
    /\ cat_invoked = <<>>
    /\ cat_errlog = <<>>
    /\ cat_result = NoneV
    /\ cat_raised = "none"
    /\ pc = "none"
    /\ re_variant = "run_engine_init"
    /\ re_in = REDefaultInput
    /\ control_layer = "unset"
    /\ timeouts = "unset"
    /\ RE = NoRE
    /\ re_log = {}
    /\ registry = {}
    /\ namespace = {}
    /\ device_classes = {}
    /\ reg_policy = "replace"
    /\ md_args = NoCall
    /\ configs_path = <<>>
    /\ md_raised = "none"
    /\ md_log = {}
    /\ md_built = {}
    /\ md_bound = {}
    /\ slept = 0
    /\ parse_hist = <<>>
    /\ imp_out = NoImport
    /\ bl_in = NoBaselineInput
    /\ sd_baseline = <<>>
    /\ bl_out = NoBaselineCall
    /\ sc_in \in ScaffoldInputs
    /\ sc_pc = "start"
    /\ sc_fs = InitialFs(sc_in)
    /\ sc_writes = <<>>
    /\ sc_exit = -1
    /\ sc_stderr = <<>>
    /\ dm_in = NoSetup
    /\ dm_pc = "done"
    /\ dm_idx = 0
    /\ environment = EmptyEnv
    /\ os_environ = EmptyEnv
    /\ dm_out = NoSetupOutcome

InitSetup ==
    /\ _iconfig = EmptyDict
    /\ cfg_hist = <<>>
    /\ cfg_raised = "none"
    /\ cfg_ret = "none"
    /\ caller_ref = NoRef
    /\ caller_copy = EmptyDict
    /\ cat_iconfig = EmptyDict
    /\ cat_env = [tiled |-> "ok", databroker |-> "ok", named |-> "ok", temp |-> "ok"]
    /\ cat_pc = "idle"
    /\ cat_idx = 0
    /\ cat_invoked = <<>>
    /\ cat_errlog = <<>>
    /\ cat_result = NoneV
    /\ cat_raised = "none"
    /\ pc = "none"
    /\ re_variant = "run_engine_init"
    /\ re_in = REDefaultInput
    /\ control_layer = "unset"
    /\ timeouts = "unset"
    /\ RE = NoRE
    /\ re_log = {}
    /\ registry = {}
    /\ namespace = {}
    /\ device_classes = {}
    /\ reg_policy = "replace"
    /\ md_args = NoCall
    /\ configs_path = <<>>
    /\ md_raised = "none"
    /\ md_log = {}
    /\ md_built = {}
    /\ md_bound = {}
    /\ slept = 0
    /\ parse_hist = <<>>
    /\ imp_out = NoImport
    /\ bl_in = NoBaselineInput
    /\ sd_baseline = <<>>
    /\ bl_out = NoBaselineCall
    /\ sc_in = NoScaffold
    /\ sc_pc = "idle"
    /\ sc_fs = {}
    /\ sc_writes = <<>>
    /\ sc_exit = -1
    /\ sc_stderr = <<>>
    /\ dm_in \in DMInputs
    /\ dm_pc = "idle"
    /\ dm_idx = 0
    /\ environment = EmptyEnv
    /\ os_environ = dm_in.env
    /\ dm_out = NoSetupOutcome

\* The configuration store under any sequence of its operations.
SpecConfig == InitConfig /\ [][CfgNext]_vars

\* One init_catalog call.
SpecCatalog == InitCatalog /\ [][CatNext]_vars

\* One init_RE call.
SpecRE == InitRE /\ [][init_RE]_vars

\* A session: init_RE, then any sequence of make_devices calls.
Spec == Init /\ [][Next]_vars

\* parse_yaml_file and dynamic_import calls on one Instrument.
SpecParse == InitParse /\ [][ParseNext]_vars

\* setup_baseline_stream calls on one SupplementalData.
SpecBaseline == InitBaseline /\ [][setup_baseline_stream]_vars

\* One run of a scaffolding command.
SpecScaffold == InitScaffold /\ [][ScaffoldNext]_vars

\* One aps_dm_setup call.
SpecSetup == InitSetup /\ [][DMNext]_vars

(***************************************************************************)
(* Properties of init_catalog (checked under SpecCatalog)                  *)
(***************************************************************************)

\* The order the handlers are to be tried in.
ChainOrder == <<"_tiled_profile_client", "_databroker_named_catalog",
                "_databroker_temporary_catalog">>

\* What the i-th handler of the chain does for the iconfig and the backends
\* of this behaviour.
ChainOutcome(i) == CallHandler(ChainOrder[i], cat_iconfig, cat_env)

\* The i-th handler returns a handle.
Yields(i) == ChainOutcome(i).out = "return" /\ ChainOutcome(i).value # NoneV

\* The first handler of the chain that returns a handle (0 if none does).
Winner ==
    IF \E i \in 1..3 : Yields(i)
    THEN CHOOSE i \in 1..3 : Yields(i) /\ \A j \in 1..(i - 1) : ~Yields(j)
    ELSE 0

\* The handlers among the first n that raise, in chain order.
RECURSIVE RaisedAmong(_)
RaisedAmong(n) ==
    IF n = 0 THEN <<>>
    ELSE IF ChainOutcome(n).out = "raise"
    THEN Append(RaisedAmong(n - 1), ChainOrder[n])
    ELSE RaisedAmong(n - 1)

\* C3: init_catalog invokes the handlers in the order tiled-profile client,
\* named databroker catalog, temporary databroker catalog; it returns the
\* value of the first one that returns a non-None handle; a handler that
\* raises or returns None is skipped, a raise being logged and not
\* propagated; no handler after the winning one is invoked.
C3_FirstHandleWins ==
    /\ Len(cat_invoked) <= 3
    /\ \A i \in 1..Len(cat_invoked) : cat_invoked[i] = ChainOrder[i]
    /\ cat_errlog = RaisedAmong(Len(cat_invoked))
    /\ cat_raised \in {"none", "RuntimeError"}
    /\ cat_pc = "done" /\ Winner # 0 =>
          /\ cat_result = ChainOutcome(Winner).value
          /\ cat_raised = "none"
          /\ Len(cat_invoked) = Winner
    /\ cat_pc = "done" /\ Winner = 0 => Len(cat_invoked) = 3

\* C3 witness: the tiled client raised and was logged, the named catalog
\* won, the temporary catalog was never invoked.
C3_Witness ==
    /\ cat_pc = "done"
    /\ cat_errlog = <<"_tiled_profile_client">>
    /\ cat_invoked = <<"_tiled_profile_client", "_databroker_named_catalog">>
    /\ cat_result.kind = "databroker"

\* The iconfig selects neither a tiled profile nor a databroker catalog.
NoCatalogSelected ==
    /\ "TILED_PROFILE_NAME" \notin DOMAIN cat_iconfig
    /\ "DATABROKER_CATALOG" \notin DOMAIN cat_iconfig

\* C4 as stated: with neither TILED_PROFILE_NAME nor DATABROKER_CATALOG,
\* init_catalog returns a temporary catalog handle and raises nothing.
C4_FallbackNeverRaises ==
    cat_pc = "done" /\ NoCatalogSelected =>
        cat_result.kind = "temporary" /\ cat_raised = "none"

\* C4 amended: with neither TILED_PROFILE_NAME nor DATABROKER_CATALOG,
\* init_catalog returns the temporary catalog handle and raises nothing
\* whenever _databroker_temporary_catalog itself returns; when that handler
\* raises, init_catalog raises RuntimeError and returns nothing.
C4_FallbackUnlessTempFails ==
    cat_pc = "done" /\ NoCatalogSelected =>
        IF ChainOutcome(3).out = "return"
        THEN cat_result.kind = "temporary" /\ cat_raised = "none"
        ELSE cat_result = NoneV /\ cat_raised = "RuntimeError"

\* C4 witness: the empty iconfig ended with the temporary catalog.
C4_Witness ==
    /\ cat_pc = "done"
    /\ cat_iconfig = EmptyDict
    /\ cat_result.kind = "temporary"
    /\ cat_raised = "none"

\* C5 as stated: init_catalog raises RuntimeError exactly when no handler
\* yields a handle, that is, exactly when every attempt, the temporary-catalog
\* fallback included, raises; in every other case it returns a handle and
\* raises nothing.
C5_RaisesIffAllRaise ==
    cat_pc = "done" =>
        /\ cat_raised = "RuntimeError" <=> \A i \in 1..3 : ~Yields(i)
        /\ cat_raised = "RuntimeError" <=> \A i \in 1..3 : ChainOutcome(i).out = "raise"
        /\ cat_raised # "RuntimeError" => cat_raised = "none" /\ cat_result # NoneV

\* C5 amended: init_catalog raises RuntimeError exactly when no handler of
\* the chain yields a handle, that is, when the temporary-catalog fallback
\* raises and each handler before it raises or returns None; in every other
\* case it returns a handle and raises nothing.
C5_RaisesIffNoHandle ==
    cat_pc = "done" =>
        /\ cat_raised = "RuntimeError" <=> \A i \in 1..3 : ~Yields(i)
        /\ cat_raised = "RuntimeError" =>
              /\ ChainOutcome(3).out = "raise"
              /\ cat_result = NoneV
              /\ Len(cat_invoked) = 3
        /\ cat_raised # "RuntimeError" => cat_raised = "none" /\ cat_result # NoneV

\* C5 witness: the first two handlers returned None, the fallback raised
\* and init_catalog raised RuntimeError.
C5_Witness ==
    /\ cat_pc = "done"
    /\ cat_raised = "RuntimeError"
    /\ cat_errlog = <<"_databroker_temporary_catalog">>
    /\ Len(cat_invoked) = 3

\* The handlers that look for a key of the iconfig, and the key of each.
ConditionalHandlers == {"_tiled_profile_client", "_databroker_named_catalog"}

SelectingKey(h) ==
    IF h = "_tiled_profile_client" THEN "TILED_PROFILE_NAME" ELSE "DATABROKER_CATALOG"

\* The handler's backend package can be imported.
BackendImports(h) ==
    IF h = "_tiled_profile_client" THEN cat_env.tiled # "missing"
    ELSE cat_env.databroker # "missing"

\* The backend does not know the profile or catalog the key names.
LookupFails(h) ==
    IF h = "_tiled_profile_client" THEN cat_env.tiled = "lookup_error"
    ELSE cat_env.named = "lookup_error"

\* The exception the backend raises for a name it does not know.
BackendLookupError(h) ==
    IF h = "_tiled_profile_client" THEN "ProfileNotFound" ELSE "KeyError"

\* init_catalog logged a failure of the handler.
FailureLogged(h) == \E i \in 1..Len(cat_errlog) : cat_errlog[i] = h

\* C23 as stated: every conditional handler that was invoked returned None
\* without raising when its selecting key is absent, and raised the backend's
\* lookup error when the key names an unknown profile or catalog; the
\* temporary-catalog handler does not return None.
C23_NoneWhenKeyAbsent ==
    \A i \in 1..Len(cat_invoked) :
        /\ cat_invoked[i] \in ConditionalHandlers
              /\ SelectingKey(cat_invoked[i]) \notin DOMAIN cat_iconfig =>
                 /\ CallHandler(cat_invoked[i], cat_iconfig, cat_env) = Returns(NoneV)
                 /\ ~FailureLogged(cat_invoked[i])
        /\ cat_invoked[i] \in ConditionalHandlers
              /\ SelectingKey(cat_invoked[i]) \in DOMAIN cat_iconfig
              /\ BackendImports(cat_invoked[i])
              /\ LookupFails(cat_invoked[i]) =>
                 /\ CallHandler(cat_invoked[i], cat_iconfig, cat_env)
                        = Raises(BackendLookupError(cat_invoked[i]))
                 /\ FailureLogged(cat_invoked[i])
        /\ cat_invoked[i] = "_databroker_temporary_catalog" =>
              CallHandler(cat_invoked[i], cat_iconfig, cat_env) # Returns(NoneV)

\* C23 amended: a conditional handler first imports its backend and raises
\* ImportError when that fails, whatever the iconfig holds; when the import
\* succeeds it returns None without raising for an absent selecting key and
\* raises the backend's lookup error for a key naming an unknown profile or
\* catalog; the temporary-catalog handler returns a catalog or raises, never
\* None.
C23_NoneWhenKeyAbsentAndImported ==
    \A i \in 1..Len(cat_invoked) :
        /\ cat_invoked[i] \in ConditionalHandlers /\ ~BackendImports(cat_invoked[i]) =>
              /\ CallHandler(cat_invoked[i], cat_iconfig, cat_env) = Raises("ImportError")
              /\ FailureLogged(cat_invoked[i])
        /\ cat_invoked[i] \in ConditionalHandlers
              /\ BackendImports(cat_invoked[i])
              /\ SelectingKey(cat_invoked[i]) \notin DOMAIN cat_iconfig =>
                 /\ CallHandler(cat_invoked[i], cat_iconfig, cat_env) = Returns(NoneV)
                 /\ ~FailureLogged(cat_invoked[i])
        /\ cat_invoked[i] \in ConditionalHandlers
              /\ BackendImports(cat_invoked[i])
              /\ SelectingKey(cat_invoked[i]) \in DOMAIN cat_iconfig
              /\ LookupFails(cat_invoked[i]) =>
                 /\ CallHandler(cat_invoked[i], cat_iconfig, cat_env)
                        = Raises(BackendLookupError(cat_invoked[i]))
                 /\ FailureLogged(cat_invoked[i])
        /\ cat_invoked[i] = "_databroker_temporary_catalog" =>
              /\ CallHandler(cat_invoked[i], cat_iconfig, cat_env) # Returns(NoneV)
              /\ cat_pc = "done" /\ ~FailureLogged(cat_invoked[i]) =>
                    cat_result.kind = "temporary"

\* C23 witness: the tiled handler, without a profile name, returned None; the
\* named-catalog handler raised for an unknown catalog; the temporary
\* catalog was returned.
C23_Witness ==
    /\ cat_pc = "done"
    /\ "TILED_PROFILE_NAME" \notin DOMAIN cat_iconfig
    /\ "DATABROKER_CATALOG" \in DOMAIN cat_iconfig
    /\ cat_env.tiled = "ok"
    /\ cat_env.named = "lookup_error"
    /\ cat_invoked = ChainOrder
    /\ cat_errlog = <<"_databroker_named_catalog">>
    /\ cat_result.kind = "temporary"

(***************************************************************************)
(* Properties of the configuration store (checked under SpecConfig)        *)
(***************************************************************************)

LastEvent == cfg_hist[Len(cfg_hist)]

\* Every operation so far was a load_config call that raised nothing.
OnlySuccessfulLoads ==
    /\ cfg_hist # <<>>
    /\ \A i \in 1..Len(cfg_hist) : cfg_hist[i].op = "load" /\ cfg_hist[i].ok

\* The keys of the files loaded so far.
LoadedKeys == UNION {FileKeys(cfg_hist[i].path) : i \in 1..Len(cfg_hist)}

\* The last loaded file that defines key k.
LatestDefiner(k) ==
    LET i == CHOOSE i \in 1..Len(cfg_hist) :
                 /\ k \in FileKeys(cfg_hist[i].path)
                 /\ \A j \in (i + 1)..Len(cfg_hist) : k \notin FileKeys(cfg_hist[j].path)
    IN cfg_hist[i].path

\* The value file p gives key k.
FileValue(p, k) ==
    LET items == Content(p).items
        i == CHOOSE i \in 1..Len(items) : items[i][1] = k
    IN items[i][2]

\* The three derived keys describe the path of the last loaded file.
DerivedFromLast ==
    /\ DerivedKeys \subseteq DOMAIN _iconfig
    /\ _iconfig["ICONFIG_PATH"] = LastEvent.path.dirs \o <<LastEvent.path.stem>>
                                     \o LastEvent.path.suffix
    /\ _iconfig["INSTRUMENT_PATH"] = LastEvent.path.dirs
    /\ _iconfig["INSTRUMENT_FOLDER"] =
           <<LastEvent.path.dirs[Len(LastEvent.path.dirs)]>>

\* C8 as stated: after a sequence of successful load_config calls the store
\* holds every key of every loaded file with the value of the latest file
\* that defines it, and the three derived keys describe the last loaded file.
C8_MergedAndDerived ==
    OnlySuccessfulLoads =>
        /\ \A k \in LoadedKeys :
              k \in DOMAIN _iconfig /\ _iconfig[k] = FileValue(LatestDefiner(k), k)
        /\ DerivedFromLast

\* C8 amended: after a sequence of successful load_config calls the store
\* holds every key of every loaded file, each key other than ICONFIG_PATH,
\* INSTRUMENT_PATH and INSTRUMENT_FOLDER with the value of the latest file
\* that defines it; those three keys describe the path of the last loaded
\* file whatever the files define for them; the store holds no other key.
C8_MergedExceptDerived ==
    OnlySuccessfulLoads =>
        /\ DOMAIN _iconfig = LoadedKeys \cup DerivedKeys
        /\ \A k \in LoadedKeys \ DerivedKeys :
              _iconfig[k] = FileValue(LatestDefiner(k), k)
        /\ DerivedFromLast

\* C8 witness: two loads; the second file overwrote a shared key, a key of
\* the first file only is kept, the derived keys follow the second file.
C8_Witness ==
    /\ OnlySuccessfulLoads
    /\ Len(cfg_hist) = 2
    /\ cfg_hist[1].path = P_Demo
    /\ cfg_hist[2].path = P_Other
    /\ _iconfig["DATABROKER_CATALOG"] = <<"v2">>
    /\ _iconfig["RUN_ENGINE"] = <<"v1">>
    /\ _iconfig["INSTRUMENT_FOLDER"] = <<"other">>

\* C28: a load_config call that raises leaves the configuration store, the
\* three derived keys included, exactly as it was before the call.
C28_FailedLoadKeepsStore ==
    [][/\ Len(cfg_hist') = Len(cfg_hist) + 1
       /\ cfg_hist'[Len(cfg_hist')].op = "load"
       /\ cfg_raised' # "none"
       => _iconfig' = _iconfig]_vars

\* The suffixes load_config has a parser for, after lower-casing.
YamlSuffixes == {<<".", a, b, c>> : a \in {"y", "Y"}, b \in {"m", "M"}, c \in {"l", "L"}}
TomlSuffixes ==
    {<<".", a, b, c, d>> : a \in {"t", "T"}, b \in {"o", "O"},
                           c \in {"m", "M"}, d \in {"l", "L"}}

\* C9: load_config raises, and returns no configuration, when the path does
\* not exist (FileNotFoundError), when the suffix is neither .yml nor .toml
\* (ValueError), and when the file is malformed for its format (the parser's
\* error).
C9_LoadFailuresRaise ==
    cfg_hist # <<>> /\ LastEvent.op = "load" /\ LastEvent.path # NoPath =>
        LET p == LastEvent.path
        IN /\ ~Exists(p) => cfg_raised = "FileNotFoundError" /\ cfg_ret = "none"
           /\ Exists(p) /\ p.suffix \notin YamlSuffixes \cup TomlSuffixes =>
                 cfg_raised = "ValueError" /\ cfg_ret = "none"
           /\ Exists(p) /\ p.suffix \in YamlSuffixes /\ Content(p).top = "malformed" =>
                 cfg_raised = "YAMLError" /\ cfg_ret = "none"
           /\ Exists(p) /\ p.suffix \in TomlSuffixes /\ Content(p).top = "malformed" =>
                 cfg_raised = "TOMLDecodeError" /\ cfg_ret = "none"
           /\ cfg_raised # "none" => ~LastEvent.ok /\ cfg_ret = "none"

\* C9 witness: each of the three failures has happened in one behaviour.
C9_Witness ==
    /\ Len(cfg_hist) = 3
    /\ cfg_hist[1].path = P_Missing /\ ~cfg_hist[1].ok
    /\ cfg_hist[2].path = P_Yaml /\ ~cfg_hist[2].ok
    /\ cfg_hist[3].path = P_Broken /\ ~cfg_hist[3].ok
    /\ cfg_raised = "YAMLError"

\* The step is an item assignment by a caller to the mapping it was given.
CallerWrites ==
    /\ Len(cfg_hist') = Len(cfg_hist) + 1
    /\ cfg_hist'[Len(cfg_hist')].op = "setitem"

\* C10 as stated: a change a caller makes to the mapping it obtained from
\* get_config does not change the process-wide configuration.
C10_ReadOnlyView == [][CallerWrites => _iconfig' = _iconfig]_vars

\* C10 amended: the mapping get_config returns is the store itself; an item
\* a caller assigns in the mapping it obtained is assigned in the
\* process-wide configuration, which only update_config and load_config
\* otherwise change.
C10_StoreItself ==
    [][/\ caller_ref'.obj \in {"none", "_iconfig"}
       /\ caller_copy' = caller_copy
       /\ CallerWrites =>
             \E k \in DOMAIN _iconfig' :
                 /\ DOMAIN _iconfig' = DOMAIN _iconfig \cup {k}
                 /\ \A j \in DOMAIN _iconfig \ {k} : _iconfig'[j] = _iconfig[j]
       /\ _iconfig' # _iconfig =>
             cfg_hist'[Len(cfg_hist')].op \in {"load", "update", "setitem"}]_vars

\* C10 witness: a caller that obtained the mapping from get_config assigned
\* ICONFIG_PATH, and the store of a loaded configuration now holds the
\* caller's value.
C10_Witness ==
    /\ Len(cfg_hist) = 2
    /\ cfg_hist[1].op = "load" /\ cfg_hist[1].ok
    /\ LastEvent.op = "setitem"
    /\ caller_ref = [obj |-> "_iconfig", from |-> "get_config"]
    /\ _iconfig["ICONFIG_PATH"] = <<"v9">>

(***************************************************************************)
(* Properties of a session (checked under Spec)                            *)
(***************************************************************************)

DeviceNames == {"m1", "m2", "m3"}

\* The file the make_devices call in progress resolved.
DevicePath == configs_path \o <<md_args.file>>

\* The call in progress got past its argument checks to the clear block.
CallStarted == md_args.file # "None" /\ md_raised = "none"

\* Every creator of the file is a class that exists.
Loadable(path) ==
    /\ DeviceFile(path).top = "mapping"
    /\ \A i \in 1..Len(DeviceFile(path).entries) :
          DeviceFile(path).entries[i].creator \in {K_SynGauss, K_EpicsMotor}

\* The names of the devices of a file whose construction succeeds.
FileDevices(path) ==
    {n \in DeviceNames :
        \E i \in 1..Len(DeviceFile(path).entries) :
            \E j \in 1..Len(DeviceFile(path).entries[i].specs) :
                /\ DeviceFile(path).entries[i].specs[j].name = n
                /\ DeviceFile(path).entries[i].specs[j].ok}

\* C1: a make_devices call with clear=True, whatever was loaded before it,
\* empties the registry and unbinds the registered names before any device
\* of its file is constructed, and leaves the registry holding exactly the
\* devices it constructed from its file, with no other device name bound in
\* __main__.
C1_ClearThenLoad ==
    /\ pc = "md_load" /\ md_args.clear =>
          registry = {} /\ namespace = {} /\ md_built = {}
    /\ pc \in {"md_pause", "md_done"} /\ md_args.clear /\ CallStarted =>
          /\ registry = md_built
          /\ RegNames(registry) =
                IF Loadable(DevicePath) THEN FileDevices(DevicePath) ELSE {}
          /\ namespace \subseteq registry

\* C1 witness: B.yml was loaded with clear=True after a load that had bound
\* m1; m1 was removed, the registry holds m2 and m3 and so does __main__.
C1_Witness ==
    /\ pc = "md_done"
    /\ md_args.clear
    /\ md_args.file = "B.yml"
    /\ LogRec("info", "Removing from __main__", <<"m1">>) \in md_log
    /\ RegNames(registry) = {"m2", "m3"}
    /\ RegNames(namespace) = {"m2", "m3"}

\* The call in progress loaded configs/mixed.yml, whose first creator exists
\* and whose second creator cannot be imported.
MixedLoaded ==
    /\ pc \in {"md_pause", "md_done"}
    /\ CallStarted
    /\ DevicePath = ConfigsDir \o <<"mixed.yml">>

\* C2 as stated: loading a file with one non-importable creator constructs
\* and registers the devices of the well-formed entries, logs the failure
\* and raises nothing.
C2_PartialSuccess ==
    MixedLoaded =>
        /\ "m1" \in RegNames(md_built)
        /\ "m1" \in RegNames(registry)
        /\ LogRec("error", "Failed to import device creator", K_NoModule) \in md_log
        /\ md_raised = "none"

\* C2 amended: loading a file with one non-importable creator constructs,
\* registers and binds no device of the file, the well-formed entries
\* included; the failure is logged and make_devices raises nothing.
C2_WholeFileFails ==
    MixedLoaded =>
        /\ md_built = {}
        /\ md_bound = {}
        /\ md_args.clear => registry = {} /\ namespace = {}
        /\ LogRec("error", "Failed to import device creator", K_NoModule) \in md_log
        /\ LogRec("error", "Error parsing device specifications", DevicePath)
              \in md_log
        /\ LogRec("error", "Error loading device file", DevicePath) \in md_log
        /\ md_raised = "none"

\* C2 witness: mixed.yml was loaded into a cleared session and the call is
\* over.
C2_Witness ==
    /\ MixedLoaded
    /\ pc = "md_done"
    /\ md_args.clear
    /\ LogRec("error", "Error loading device file", DevicePath) \in md_log

Adding(log) ==
    {n \in DeviceNames :
        LogRec("info", "Adding ophyd device to main namespace", <<n>>) \in log}

\* C7: namespace_loader binds in __main__ only registry names that were not
\* registered before the load, and all of those when it runs to its end; a
\* load that registers no new name changes no binding.
C7_BindsOnlyNew ==
    [][pc = "md_load" =>
         /\ Adding(md_log) = {}
         /\ Adding(md_log') \cap RegNames(registry) = {}
         /\ md_bound' = Adding(md_log')
         /\ \A b \in namespace : b.name \in RegNames(registry) => b \in namespace'
         /\ \A b \in namespace' \ namespace :
               b.name \notin RegNames(registry) /\ b \in registry'
         /\ LogRec("info", "Devices loaded", DevicePath) \in md_log' =>
               Adding(md_log') = RegNames(registry') \ RegNames(registry)
         /\ RegNames(registry') \subseteq RegNames(registry) =>
               namespace' = namespace /\ Adding(md_log') = {}]_vars

\* C7 witness: a file was loaded again without clear; its devices were
\* constructed, nothing was bound and __main__ still holds the bindings of
\* the load before.
C7_Witness ==
    /\ pc = "md_pause"
    /\ ~md_args.clear
    /\ md_built # {}
    /\ md_bound = {}
    /\ LogRec("info", "Devices loaded", DevicePath) \in md_log
    /\ namespace # {}

\* The file of the call in progress is malformed YAML, or its top level is
\* no mapping.
Unreadable == DeviceFile(DevicePath).top \in {"malformed", "null", "sequence", "scalar"}

\* C11: when the device file is malformed YAML or its top level is not a
\* mapping (an empty file included), the load constructs no device, leaves
\* the registry, __main__ and the import cache as they were, logs the parse
\* error and the load error, and make_devices raises nothing.
C11_UnreadableFileAborts ==
    [][pc = "md_load" /\ Unreadable =>
         /\ registry' = registry
         /\ namespace' = namespace
         /\ device_classes' = device_classes
         /\ md_built' = {}
         /\ md_bound' = {}
         /\ LogRec("error",
                   IF DeviceFile(DevicePath).top = "malformed"
                   THEN "YAML parsing error in device file"
                   ELSE "Invalid device file format",
                   DevicePath) \in md_log'
         /\ LogRec("error", "Error loading device file", DevicePath) \in md_log'
         /\ md_raised' = "none"
         /\ pc' = "md_pause"]_vars

\* C11 witness: an empty file was loaded without clear into a session that
\* holds devices; the devices are still registered and bound.
C11_Witness ==
    /\ pc = "md_done"
    /\ md_args.file = "empty.yml"
    /\ LogRec("error", "Invalid device file format", DevicePath) \in md_log
    /\ md_raised = "none"
    /\ md_built = {}
    /\ registry # {}
    /\ namespace = registry

\* C12: when the resolved device file does not exist, make_devices logs
\* 'Device file not found' and nothing else, does not invoke the loader,
\* constructs no device and raises nothing.
C12_MissingFileLogged ==
    [][pc = "md_load" /\ DeviceFile(DevicePath).top = "absent" =>
         /\ md_log' = md_log \cup {LogRec("error", "Device file not found", DevicePath)}
         /\ registry' = registry
         /\ namespace' = namespace
         /\ device_classes' = device_classes
         /\ md_built' = {}
         /\ md_bound' = {}
         /\ md_raised' = "none"
         /\ pc' = "md_pause"]_vars

\* C12 witness: a call for a missing file is over; the devices of the load
\* before are still registered.
C12_Witness ==
    /\ pc = "md_done"
    /\ md_args.file = "missing.yml"
    /\ LogRec("error", "Device file not found", DevicePath) \in md_log
    /\ md_raised = "none"
    /\ registry # {}

\* C16: when instrument.connect() raises NotConnected, the failure is logged
\* and not raised: namespace_loader runs to its end, the devices it loaded
\* are in the registry, the newly registered names are bound in __main__ to
\* the registry's objects, and make_devices raises nothing and logs no load
\* error.
C16_NotConnectedLogged ==
    [][pc = "md_load" /\ LogRec("error", "NotConnected", DevicePath) \in md_log' =>
         /\ LogRec("info", "Devices loaded", DevicePath) \in md_log'
         /\ LogRec("error", "Error loading device file", DevicePath) \notin md_log'
         /\ md_raised' = "none"
         /\ md_built' # {}
         /\ RegNames(md_built') \subseteq RegNames(registry')
         /\ md_bound' = RegNames(registry') \ RegNames(registry)
         /\ \A n \in md_bound' : \E d \in registry' \cap namespace' : d.name = n
         /\ md_args.clear => registry' = md_built' /\ namespace' = registry'
         /\ pc' = "md_pause"]_vars

\* C16 witness: B.yml was loaded with clear=True, connect raised
\* NotConnected, and its two devices are registered and bound.
C16_Witness ==
    /\ pc = "md_done"
    /\ md_args.clear
    /\ md_args.file = "B.yml"
    /\ LogRec("error", "NotConnected", DevicePath) \in md_log
    /\ md_raised = "none"
    /\ RegNames(registry) = {"m2", "m3"}
    /\ namespace = registry

\* C17: a make_devices call that reaches its load step goes on to the pause
\* whatever the load did, and there sleeps once, for pause seconds, when
\* pause > 0 and not at all when pause <= 0; no other step of the call sleeps.
C17_PauseAfterLoad ==
    [][/\ pc = "md_load" => pc' = "md_pause" /\ slept' = 0
       /\ pc = "md_pause" =>
             /\ slept' = IF md_args.pause > 0 THEN md_args.pause ELSE 0
             /\ pc' = "md_done"
       /\ pc # "md_pause" /\ pc' # "ready" => slept' = slept]_vars

\* C17 witness: the device file was missing and the call with the default
\* pause still slept one second.
C17_Witness ==
    /\ pc = "md_done"
    /\ md_args.pause = DefaultPause
    /\ LogRec("error", "Device file not found", DevicePath) \in md_log
    /\ slept = 1

ResolvedFile ==
    (IF md_args.path = <<"None">>
     THEN SubSeq(_iconfig["INSTRUMENT_PATH"], 1, Len(_iconfig["INSTRUMENT_PATH"]) - 1)
              \o <<"configs">>
     ELSE md_args.path) \o <<md_args.file>>

\* The messages of make_devices that name the device file.
FileMessages ==
    {"Device file not found", "Loading device file", "Devices loaded",
     "Error loading device file", "NotConnected"}

\* C22: a make_devices call that reached its load step looked for, and gave
\* the loader, Path(path)/file when path was given and otherwise
\* <parent of INSTRUMENT_PATH>/configs/file: every message naming a file names
\* that one, the loader ran exactly when that file exists, and the devices
\* constructed are devices of that file.
C22_DeviceFileResolved ==
    pc \in {"md_pause", "md_done"} /\ CallStarted =>
        /\ \A rec \in md_log : rec[2] \in FileMessages => rec[3] = ResolvedFile
        /\ LogRec("info", "Loading device file", ResolvedFile) \in md_log
              <=> DeviceFileExists(ResolvedFile)
        /\ LogRec("error", "Device file not found", ResolvedFile) \in md_log
              <=> ~DeviceFileExists(ResolvedFile)
        /\ RegNames(md_built) \subseteq FileDevices(ResolvedFile)
        /\ Loadable(ResolvedFile) => RegNames(md_built) = FileDevices(ResolvedFile)

\* C22 witness: with a configured instrument path, A.yml was loaded from the
\* custom directory, whose A.yml makes m3 and not the m1, m2 of the
\* configured directory's A.yml.
C22_Witness ==
    /\ pc = "md_done"
    /\ md_args.path = CustomDir
    /\ md_args.file = "A.yml"
    /\ Get(_iconfig, "INSTRUMENT_PATH") # "None"
    /\ RegNames(md_built) = {"m3"}
    /\ LogRec("info", "Loading device file", CustomDir \o <<"A.yml">>) \in md_log

\* C26: the clear block runs before the existence test: with clear=True and
\* a device file that does not exist the registry is emptied and the
\* bindings of the registered names are removed, the load step then changes
\* neither, and the call ends with an empty registry; with clear=False the
\* same call changes neither the registry nor the namespace.
C26_ClearBeforeExistenceTest ==
    [][~DeviceFileExists(DevicePath) =>
         /\ pc = "md_clear" /\ md_args.clear =>
               /\ registry' = {}
               /\ namespace' = {b \in namespace : b.name \notin RegNames(registry)}
               /\ pc' = "md_load"
         /\ pc = "md_clear" /\ ~md_args.clear =>
               /\ registry' = registry
               /\ namespace' = namespace
               /\ pc' = "md_load"
         /\ pc \in {"md_load", "md_pause"} =>
               /\ registry' = registry
               /\ namespace' = namespace
               /\ md_built' = {}
               /\ md_args.clear => registry' = {}]_vars

\* C26 witness: a call with clear=True on a missing file is over; it removed
\* m1 from __main__, the registry is empty and nothing was constructed.
C26_Witness ==
    /\ pc = "md_done"
    /\ md_args.clear
    /\ md_args.file = "missing.yml"
    /\ LogRec("error", "Device file not found", DevicePath) \in md_log
    /\ LogRec("info", "Removing from __main__", <<"m1">>) \in md_log
    /\ registry = {}
    /\ namespace = {}
    /\ md_built = {}

\* C27: after a make_devices call with clear=True on an existing file whose
\* load ran to its end (connect raising nothing or NotConnected), __main__
\* binds every registered name to the object the registry holds under it,
\* and to no other object.
C27_RegistryBound ==
    /\ pc \in {"md_pause", "md_done"}
    /\ md_args.clear
    /\ CallStarted
    /\ LogRec("info", "Devices loaded", DevicePath) \in md_log
    => /\ \A d \in registry : d \in namespace
       /\ \A d \in registry, b \in namespace : b.name = d.name => b = d

\* C27 witness: B.yml was loaded with clear=True into a session that had
\* devices, connect raised nothing, and m2 and m3 are bound to the
\* registry's objects.
C27_Witness ==
    /\ pc = "md_done"
    /\ md_args.clear
    /\ md_args.file = "B.yml"
    /\ LogRec("info", "Devices loaded", DevicePath) \in md_log
    /\ LogRec("error", "NotConnected", DevicePath) \notin md_log
    /\ LogRec("info", "Removing from __main__", <<"m1">>) \in md_log
    /\ RegNames(registry) = {"m2", "m3"}
    /\ registry \subseteq namespace

ValidName ==
    /\ sc_in.name # <<>>
    /\ sc_in.name[1] = "a"
    /\ \A i \in 2..Len(sc_in.name) : sc_in.name[i] \in {"a", "_", "0"}

\* A step the command reaches fails.
StepFails ==
    \/ sc_in.fail = "copy"
    \/ sc_in.cmd = "create_new_instrument"
          /\ sc_in.fail \in {"qserver_config", "qserver_script"}

\* C24: both commands reject an invalid name first and an existing
\* destination second, before anything is copied: whenever a file or
\* directory has been created or overwritten the name is valid and the
\* destination did not exist; every rejection and every failing step ends
\* the command with exit status 1 and one message on stderr.
C24_RejectBeforeCopy ==
    /\ sc_writes # <<>> \/ sc_fs # InitialFs(sc_in) =>
          ValidName /\ ~sc_in.dest_exists
    /\ sc_pc = "done" =>
          /\ ~ValidName => sc_exit = 1 /\ sc_stderr = <<"Invalid name">>
          /\ ValidName /\ sc_in.dest_exists =>
                sc_exit = 1 /\ sc_stderr = <<"Destination exists">>
          /\ ValidName /\ ~sc_in.dest_exists /\ StepFails =>
                sc_exit = 1 /\ Len(sc_stderr) = 1
          /\ ValidName /\ ~sc_in.dest_exists /\ ~StepFails =>
                sc_exit = 0 /\ sc_stderr = <<>> /\ "dest" \in sc_fs
          /\ sc_exit \in {0, 1}

\* C24 witness: create_new_instrument was given a name with an upper-case
\* letter while its destination existed; it ended with status 1 on the name
\* and wrote nothing.
C24_Witness ==
    /\ sc_pc = "done"
    /\ sc_in.cmd = "create_new_instrument"
    /\ sc_in.name = <<"a", "A">>
    /\ sc_in.dest_exists
    /\ sc_exit = 1
    /\ sc_stderr = <<"Invalid name">>
    /\ sc_writes = <<>>
    /\ sc_fs = InitialFs(sc_in)

(***************************************************************************)
(* Properties of aps_dm_setup (checked under SpecSetup)                    *)
(***************************************************************************)

\* The i-th line of the script, stripped, is "export", spaces, the key k,
\* "=", and the value v.
ExportsAt(i, k, v) ==
    LET line == strip(dm_in.script[i])
    IN \E a, b \in 1..Len(line) :
          /\ line[1] = "export"
          /\ a >= 3
          /\ \A j \in 2..(a - 1) : line[j] = " "
          /\ b >= a
          /\ \A j \in a..b : line[j] \in WordTokens
          /\ b + 1 <= Len(line)
          /\ line[b + 1] = "="
          /\ k = SubSeq(line, a, b)
          /\ v = SubSeq(line, b + 2, Len(line))

\* The keys a line or the environment may hold, and the values of lines.
KeyUniverse == {<<"A">>, <<"B">>, <<"DM_STATION_NAME">>, <<"HOME">>}
ValueUniverse == {<<>>, <<"1">>, <<"2", " ", "#">>, <<"S">>, <<"3">>}

\* Some line of the script exports k.
Named(k) ==
    \E i \in 1..Len(dm_in.script), v \in ValueUniverse : ExportsAt(i, k, v)

\* The last line that exports k gives it the value v.
LastValue(k, v) ==
    \E i \in 1..Len(dm_in.script) :
        /\ ExportsAt(i, k, v)
        /\ \A j \in (i + 1)..Len(dm_in.script), w \in ValueUniverse : ~ExportsAt(j, k, w)

\* C25: aps_dm_setup on an existing script leaves every KEY of an
\* 'export KEY=VALUE' line set to the VALUE of the last such line and every
\* other variable as it was; with a None path or a path that does not exist
\* the environment is unchanged; the call raises nothing.
C25_ExportsApplied ==
    /\ dm_out.raised = "none"
    /\ DOMAIN os_environ \subseteq KeyUniverse
    /\ dm_pc # "done" => os_environ = dm_in.env
    /\ dm_pc = "done" /\ dm_in.path # "script" => os_environ = dm_in.env
    /\ dm_pc = "done" /\ dm_in.path = "script" =>
          \A k \in KeyUniverse :
              IF Named(k)
              THEN /\ k \in DOMAIN os_environ
                   /\ \A v \in ValueUniverse : LastValue(k, v) => os_environ[k] = v
                   /\ \E v \in ValueUniverse : LastValue(k, v)
              ELSE /\ k \in DOMAIN os_environ <=> k \in DOMAIN dm_in.env
                   /\ k \in DOMAIN dm_in.env => os_environ[k] = dm_in.env[k]

\* C25 witness: A was 0; the script exported A twice; A has the value of the
\* second line and HOME is as it was.
C25_Witness ==
    /\ dm_pc = "done"
    /\ dm_in.path = "script"
    /\ dm_in.script = <<<<"export", " ", "A", "=", "1">>,
                        <<"export", " ", "A", "=", "2", " ", "#">> >>
    /\ <<"A">> \in DOMAIN dm_in.env
    /\ dm_in.env[<<"A">>] = <<"0">>
    /\ os_environ[<<"A">>] = <<"2", " ", "#">>
    /\ os_environ[<<"HOME">>] = <<"h">>

(***************************************************************************)
(* Properties of init_RE (checked under SpecRE)                            *)
(***************************************************************************)

\* The subscriptions init_RE makes for its arguments, in order.
Subscribed(in) ==
    (IF in.cat THEN <<"cat.v1.insert">> ELSE <<>>)
        \o (IF in.bec THEN <<"bec">> ELSE <<>>)

\* The init_RE steps that follow the metadata-storage step.
AfterStorage == {"re_subscribe", "re_finish", "ready"}

\* C18: when a metadata path is configured and StoredDict(MD_PATH) raises,
\* init_RE logs the failure, leaves RE.md the in-memory dictionary, and
\* returns a RunEngine whose subscriptions, metadata, scan_id hook and
\* progress bar are the ones a call without a storage path sets up.
C18_StorageFailureLogged ==
    re_in.md_path /\ re_in.md_open = "error" /\ pc \in AfterStorage =>
        /\ "StoredDict error" \in re_log
        /\ RE.made
        /\ RE.md_store = "memory"
        /\ pc = "re_subscribe" => RE.subs = <<>> /\ RE.md = EmptyDict
        /\ pc = "ready" =>
              /\ RE.subs = Subscribed(re_in)
              /\ RE.md = IF re_in.cat THEN Merge(ProgrammaticMD, DefaultMD)
                                     ELSE EmptyDict
              /\ RE.scan_id
              /\ RE.waiting_hook = IF re_in.pbar THEN "pbar" ELSE "none"
              /\ RE.preprocessors # <<>>

\* C18 witness: init_RE returned with both subscriptions after the
\* StoredDict could not be opened.
C18_Witness ==
    /\ pc = "ready"
    /\ re_in.md_path
    /\ re_in.md_open = "error"
    /\ "StoredDict error" \in re_log
    /\ RE.md_store = "memory"
    /\ RE.subs = <<"cat.v1.insert", "bec">>

\* C19: once init_RE has passed its subscription step the RunEngine's
\* subscribers are cat_instance.v1.insert when a catalog was given, then the
\* callback when one was given, and nothing else; with a catalog RE.md holds
\* the catalog-derived metadata overlaid by DEFAULT_METADATA, which keeps
\* the shared key; without one RE.md is not updated.
C19_SubscriptionOrder ==
    /\ pc \in {"init_RE", "re_timeouts", "re_engine", "re_sd", "re_md", "re_subscribe"}
          => RE.subs = <<>>
    /\ pc \in {"re_finish", "ready"} =>
          /\ RE.subs = Subscribed(re_in)
          /\ ~re_in.cat /\ ~re_in.bec => RE.subs = <<>>
          /\ re_in.cat /\ re_in.bec => RE.subs = <<"cat.v1.insert", "bec">>
          /\ re_in.cat =>
                /\ DOMAIN RE.md = {"databroker_catalog", "beamline_id", "proposal_id"}
                /\ RE.md["databroker_catalog"] = <<"programmatic">>
                /\ RE.md["beamline_id"] = <<"default">>
                /\ RE.md["proposal_id"] = <<"default">>
          /\ ~re_in.cat => RE.md = EmptyDict

\* The number of times sd is in the preprocessor list.
TimesListed ==
    Cardinality({i \in 1..Len(RE.preprocessors) : RE.preprocessors[i] = "sd"})

\* C29: when init_RE has returned, in either variant and whatever catalog or
\* callback it was given, RE.preprocessors lists the returned
\* SupplementalData object exactly once.
C29_SupplementalDataOnce ==
    pc = "ready" => TimesListed = 1

\* C19 witness: a call with a catalog and a callback returned, and the
\* shared metadata key has DEFAULT_METADATA's value.
C19_Witness ==
    /\ pc = "ready"
    /\ re_in.cat
    /\ re_in.bec
    /\ RE.subs = <<"cat.v1.insert", "bec">>
    /\ RE.md["beamline_id"] = <<"default">>

(***************************************************************************)
(* Properties of setup_baseline_stream (checked under SpecBaseline)        *)
(***************************************************************************)

\* The label setup_baseline_stream looks up.
ConfiguredLabel == IF bl_in.config.label = "absent" THEN "baseline" ELSE bl_in.config.label

\* The names of the registry entries that carry the configured label.
Carrying ==
    {bl_in.registry[i].name : i \in {j \in 1..Len(bl_in.registry) :
                                        ConfiguredLabel \in bl_in.registry[j].labels}}

\* seq lists the members of S once each, in the registry's order.
ListsInRegistryOrder(seq, S) ==
    /\ Len(seq) = Cardinality(S)
    /\ {seq[i] : i \in 1..Len(seq)} = S
    /\ \A i, j \in 1..Len(seq) : i < j =>
          \E a, b \in 1..Len(bl_in.registry) :
              a < b /\ bl_in.registry[a].name = seq[i] /\ bl_in.registry[b].name = seq[j]

\* C20: a setup_baseline_stream call raises nothing; it leaves sd.baseline as
\* it was when BASELINE_LABEL is absent, when ENABLE is false or absent, when
\* the registry lookup raises or when no entry carries the label; otherwise
\* it keeps the entries already listed and appends the registry entries that
\* carry the configured label, 'baseline' when LABEL is absent.
C20_BaselineStream ==
    [][bl_out'.calls = bl_out.calls + 1 =>
         /\ bl_out'.raised = "none"
         /\ IF \/ ~bl_in.config.present
               \/ bl_in.config.enable # "true"
               \/ bl_in.lookup = "raises"
               \/ Carrying = {}
            THEN sd_baseline' = sd_baseline
            ELSE /\ Len(sd_baseline') = Len(sd_baseline) + Cardinality(Carrying)
                 /\ SubSeq(sd_baseline', 1, Len(sd_baseline)) = sd_baseline
                 /\ ListsInRegistryOrder(
                        SubSeq(sd_baseline', Len(sd_baseline) + 1, Len(sd_baseline')),
                        Carrying)]_vars

\* C20 witness: with ENABLE true and no LABEL, two calls each appended the
\* two entries labelled 'baseline' after the entry the list already held.
C20_Witness ==
    /\ bl_out.calls = 2
    /\ bl_out.raised = "none"
    /\ bl_in.config.present
    /\ bl_in.config.enable = "true"
    /\ bl_in.config.label = "absent"
    /\ bl_in.lookup = "ok"
    /\ sd_baseline = <<"d0", "d1", "d3", "d1", "d3">>

(***************************************************************************)
(* Properties of parse_yaml_file and dynamic_import (checked under         *)
(* SpecParse)                                                              *)
(***************************************************************************)

\* The creators of the device files, and those among them that name a class
\* that exists.
Creators == {K_SynGauss, K_EpicsMotor, K_NoModule, K_NoAttr, K_Local}
Resolving == {K_SynGauss, K_EpicsMotor}

\* How often k occurs in a sequence.
Occurrences(k, seq) == Cardinality({i \in 1..Len(seq) : seq[i] = k})

\* How often dynamic_import was invoked on k in the first n parse calls.
RECURSIVE ImportCount(_, _)
ImportCount(k, n) ==
    IF n = 0 THEN 0
    ELSE ImportCount(k, n - 1) + Occurrences(k, parse_hist[n].calls)

\* C13: over any sequence of parse_yaml_file calls on one Instrument,
\* dynamic_import is invoked at most once on a class path that resolves, and
\* the path is then in the cache; a path whose import fails never enters the
\* cache; a file that names one class for N devices yields N entries.
C13_ImportedOnce ==
    /\ \A k \in Resolving :
          /\ ImportCount(k, Len(parse_hist)) <= 1
          /\ ImportCount(k, Len(parse_hist)) = 1 <=> k \in device_classes
    /\ device_classes \subseteq Resolving
    /\ \A i \in 1..Len(parse_hist) :
          parse_hist[i].path = ConfigsDir \o <<"A.yml">> =>
              /\ parse_hist[i].raised = "none"
              /\ Len(parse_hist[i].devices) = 2
              /\ {parse_hist[i].devices[j].kwargs.name : j \in 1..2} = {"m1", "m2"}
              /\ Occurrences(K_SynGauss, parse_hist[i].calls) <= 1

\* C13 witness: A.yml, mixed.yml and A.yml again were parsed: one import of
\* SynGauss in all, one failed import, and the last call imported nothing.
C13_Witness ==
    /\ Len(parse_hist) = 3
    /\ parse_hist[1].path = ConfigsDir \o <<"A.yml">>
    /\ parse_hist[2].path = ConfigsDir \o <<"mixed.yml">>
    /\ parse_hist[3].path = ConfigsDir \o <<"A.yml">>
    /\ ImportCount(K_SynGauss, 3) = 1
    /\ ImportCount(K_NoModule, 3) = 1
    /\ parse_hist[3].calls = <<>>
    /\ Len(parse_hist[3].devices) = 2

\* One entry per table of the file, keys in file order, tables in list order.
RECURSIVE TablesOf(_)
TablesOf(entries) ==
    IF entries = <<>> THEN <<>>
    ELSE [i \in 1..Len(entries[1].specs) |->
             [device_class |-> entries[1].creator, args |-> <<>>,
              kwargs |-> entries[1].specs[i]]]
         \o TablesOf(Tail(entries))

\* C14: a parse_yaml_file call that returns gives exactly one entry per
\* keyword-argument table of the file, top-level keys in file order and
\* tables in list order, each entry with the key as device_class, the table
\* as kwargs and no positional arguments.
C14_OneEntryPerTable ==
    \A i \in 1..Len(parse_hist) :
        IF parse_hist[i].raised = "none"
        THEN parse_hist[i].devices = TablesOf(DeviceFile(parse_hist[i].path).entries)
        ELSE parse_hist[i].devices = <<>>

\* C14 witness: B.yml (two keys) and A.yml (one key, two tables) were parsed.
C14_Witness ==
    /\ Len(parse_hist) = 2
    /\ parse_hist[1].path = ConfigsDir \o <<"B.yml">>
    /\ parse_hist[1].devices[1].device_class = K_SynGauss
    /\ parse_hist[1].devices[2].device_class = K_EpicsMotor
    /\ parse_hist[2].path = ConfigsDir \o <<"A.yml">>
    /\ parse_hist[2].devices[1].kwargs.name = "m1"
    /\ parse_hist[2].devices[2].kwargs.name = "m2"

\* The path has a "." somewhere.
HasDot(path) == \E i \in 1..Len(path) : path[i] = "."

\* The part of a dotted path before its last "." and the part after it.
Prefix(path) ==
    SubSeq(path, 1, (CHOOSE i \in 1..Len(path) :
                        path[i] = "." /\ \A j \in (i + 1)..Len(path) : path[j] # ".") - 1)
Suffix(path) == SubSeq(path, Len(Prefix(path)) + 2, Len(path))

\* C15: dynamic_import raises ValueError, with no module import attempted,
\* for a path without "." and for a path that starts with "."; for any other
\* path it imports the part before the last "." as a module and returns the
\* attribute named by the part after it; a failed import raises ImportError
\* and a failed lookup AttributeError, and then nothing is returned.
C15_DynamicImport ==
    imp_out.called =>
        IF ~HasDot(imp_out.path) \/ imp_out.path[1] = "."
        THEN imp_out.exc = "ValueError" /\ imp_out.imported = <<>> /\ imp_out.obj = <<>>
        ELSE /\ imp_out.imported = <<Prefix(imp_out.path)>>
             /\ imp_out.exc \in {"none", "ImportError", "AttributeError"}
             /\ imp_out.exc = "ImportError" <=>
                   Prefix(imp_out.path) \notin {<<"ophyd">>, <<"ophyd", ".", "sim">>}
             /\ imp_out.path \in {K_SynGauss, K_EpicsMotor} =>
                   /\ imp_out.exc = "none"
                   /\ imp_out.obj = Prefix(imp_out.path) \o <<"::">> \o Suffix(imp_out.path)
             /\ imp_out.path \in {K_NoAttr, <<"ophyd", ".">>} =>
                   imp_out.exc = "AttributeError"
             /\ imp_out.exc # "none" => imp_out.obj = <<>>

\* C15 witness: a relative path was rejected before any import.
C15_Witness ==
    /\ imp_out.called
    /\ imp_out.path = K_Relative
    /\ imp_out.exc = "ValueError"
    /\ imp_out.imported = <<>>

====
